---- MODULE Spec2Model ----
(***************************************************************************)
(* Model of the run transcript parser of src/src/log-parser.ts.            *)
(*                                                                         *)
(* A raw log is the array of lines that rawLog.split("\n") produces.  A    *)
(* line is a sequence of tokens.  The characters the code looks at one by  *)
(* one (the double quote, the backslash, the two braces) are tokens of     *)
(* their own, as are the closing delimiters ' ) , ] that the flush tests    *)
(* for; a run of white space is the token WS; every other token is a word  *)
(* or fixed phrase holding none of these characters.  The regular          *)
(* expressions of the source are matched token by token.  Two characters   *)
(* outside ASCII are written with stand-ins: RULE                          *)
(* is the box-drawing rule of a tool header and TADA the emoji of the      *)
(* secrets banner.                                                         *)
(* Indices into lines are 0-based as in the source; At(lines, i) reads     *)
(* lines[i].                                                               *)
(***************************************************************************)
EXTENDS Integers, Sequences, FiniteSets, TLC

WS == " "
RULE == "<rule>"
TADA == "<tada>"
QUOTE == "\""
BSLASH == "\\"
LBRACE == "{"
RBRACE == "}"
NL == "<nl>"

At(lines, i) == lines[i + 1]

(***************************************************************************)
(* Token-level matching.  A pattern is a sequence of elements: a set of    *)
(* admissible tokens, or optional white space, or required white space.    *)
(* MatchAt returns the index just past the match starting at               *)
(* token k of the line, or 0 when there is no match.  White space is the   *)
(* token WS and, in a text of several lines, the line break NL.            *)
(***************************************************************************)
Tok(S) == [kind |-> "tok", set |-> S]
Lit(t) == Tok({t})
OptWs == [kind |-> "ws*", set |-> {WS}]
ReqWs == [kind |-> "ws+", set |-> {WS}]

RECURSIVE SkipWs(_, _)
SkipWs(line, k) ==
  IF k <= Len(line) /\ line[k] \in {WS, NL} THEN SkipWs(line, k + 1) ELSE k

RECURSIVE MatchAt(_, _, _)
MatchAt(line, k, pat) ==
  IF pat = <<>> THEN k
  ELSE LET e == Head(pat)
       IN CASE e.kind = "ws*" -> MatchAt(line, SkipWs(line, k), Tail(pat))
            [] e.kind = "ws+" ->
                 IF k <= Len(line) /\ line[k] \in {WS, NL}
                 THEN MatchAt(line, SkipWs(line, k), Tail(pat))
                 ELSE 0
            [] OTHER ->
                 IF k <= Len(line) /\ line[k] \in e.set
                 THEN MatchAt(line, k + 1, Tail(pat))
                 ELSE 0

StartsWith(line, pat) == MatchAt(line, 1, pat) # 0

(***************************************************************************)
(* Character classes of the tokens the model uses.                         *)
(***************************************************************************)
\* [a-z_]+ : parameter keys
LowerKeyToks ==
  {"query", "project", "path", "command", "content", "max_depth",
   "meta", "raw", "annotations", "audience", "priority", "text"}
\* \w+ : one word
WordToks == LowerKeyToks \cup {"Gooseherd", "run", "ls", "git", "Some", "None"}
\* [\w-]+ : a run id
IdToks == WordToks \cup {"abc-123"}
\* \d+
DigitToks == {"0", "1", "12"}
\* tokens whose first character is the emoji of the secrets banner
TadaToks == {TADA, "<tada>tool"}
\* tokens that hold white space only
WsToks == {WS}
\* tokens whose first character is one of " ' ) , } ]
DebrisToks == {QUOTE, "'", ")", ",", RBRACE, "]"}
\* tokens that begin with Some or None
SomeNoneToks == {"Some(", "None"}

NonSpace(t) == t \notin WsToks

\* Pattern matchers (log-parser.ts lines 54-73)
\* /^--- (\S+) \| (\S+) -+$/ with the box-drawing rule written RULE
TOOL_HEADER_RE(line) ==
  /\ Len(line) = 9
  /\ line[1] = RULE /\ line[2] = WS /\ NonSpace(line[3]) /\ line[4] = WS
  /\ line[5] = "|" /\ line[6] = WS /\ NonSpace(line[7]) /\ line[8] = WS
  /\ line[9] = RULE
ToolOf(line) == line[3]
ExtensionOf(line) == line[7]

\* /^\$ (.+)$/
SHELL_CMD_RE(line) == Len(line) >= 3 /\ line[1] = "$" /\ line[2] = WS
CommandOf(line) == SubSeq(line, 3, Len(line))

\* /^starting session \| provider: (\S+) model: (.+)$/
SESSION_START_RE(line) ==
  /\ Len(line) >= 5
  /\ line[1] = "starting session | provider:" /\ line[2] = WS
  /\ NonSpace(line[3]) /\ line[4] = " model: "
ProviderOf(line) == line[3]
ModelOf(line) == SubSeq(line, 5, Len(line))

\* /^Annotated\s*\{/
ANNOTATED_START_RE(line) == StartsWith(line, <<Lit("Annotated"), OptWs, Lit(LBRACE)>>)

\* /^\w+ run ([\w-]+)$/
APP_RUN_RE(line) ==
  /\ Len(line) = 5
  /\ line[1] \in WordToks /\ line[2] = WS /\ line[3] = "run" /\ line[4] = WS
  /\ line[5] \in IdToks

\* /^([a-z_]+): (.+)$/
TOOL_PARAM_RE(line) ==
  /\ Len(line) >= 4
  /\ line[1] \in LowerKeyToks /\ line[2] = ":" /\ line[3] = WS
ParamKey(line) == line[1]
ParamValue(line) == SubSeq(line, 4, Len(line))

\* /^\s+(session id|working directory): .+$/
SESSION_META_RE(line) ==
  /\ Len(line) >= 5
  /\ line[1] = WS /\ line[2] \in {"session id", "working directory"}
  /\ line[3] = ":" /\ line[4] = WS

\* the same with the secrets pattern anchored at the start of the line
NoisePatternsAnchored(line) ==
  <<StartsWith(line, <<Lit("---"), OptWs, Lit("loading"), ReqWs, Lit(".bash_profile")>>),
    Len(line) >= 1 /\ line[1] = "All secrets loaded from cache",
    Len(line) >= 1 /\ line[1] \in TadaToks,
    \A k \in 1..Len(line) : line[k] \in WsToks,
    StartsWith(line, <<Lit("zsh"), Lit(":"), Tok(DigitToks), Lit(":"), Lit(WS),
                       Lit("command not found:")>>)>>

NOISE_PATTERNS(line) ==
  <<StartsWith(line, <<Lit("---"), OptWs, Lit("loading"), ReqWs, Lit(".bash_profile")>>),
    \E k \in 1..Len(line) : line[k] = "All secrets loaded from cache",
    Len(line) >= 1 /\ line[1] \in TadaToks,
    \A k \in 1..Len(line) : line[k] \in WsToks,
    StartsWith(line, <<Lit("zsh"), Lit(":"), Tok(DigitToks), Lit(":"), Lit(WS),
                       Lit("command not found:")>>)>>

ANNOTATED_LEAK_RE(line) ==
  \/ StartsWith(line, <<OptWs, Lit("raw"), Lit(":"), OptWs, Lit("Text(")>>)
  \/ StartsWith(line, <<OptWs, Lit("RawTextContent"), OptWs, Lit(LBRACE)>>)
  \/ StartsWith(line, <<OptWs, Lit("annotations"), Lit(":"), OptWs, Tok(SomeNoneToks)>>)
  \/ StartsWith(line, <<OptWs, Lit("Annotations"), OptWs, Lit(LBRACE)>>)
  \/ StartsWith(line, <<OptWs, Lit("audience"), Lit(":"), OptWs, Lit("Some(")>>)
  \/ StartsWith(line, <<OptWs, Lit("priority"), Lit(":"), OptWs, Lit("Some(")>>)
  \/ StartsWith(line, <<OptWs, Lit("meta"), Lit(":"), OptWs, Lit("None")>>)

isNoiseLine(line) ==
  LET tests == NOISE_PATTERNS(line) IN \E p \in 1..Len(tests) : tests[p]


(***************************************************************************)
(* The character loop of the block scan (lines 92-103 and 126-137): the    *)
(* quote flag starts false on every line; a double quote toggles it unless *)
(* the character before it is a backslash; braces count outside quotes.    *)
(* ScanChars returns the depth after the line.                             *)
(***************************************************************************)
\* the same counting every brace, quoted or not
ScanCharsNoQuotes(line, ci, inQuote, depth) ==
  LET Counted(ch) == {k \in ci..Len(line) : line[k] = ch}
  IN depth + Cardinality(Counted(LBRACE)) - Cardinality(Counted(RBRACE))

\* Toggles(k): character k flips the flag; Quoted(k): the flag when k is read
ScanChars(line, ci, inQuote, depth) ==
  LET Toggles(k) == line[k] = QUOTE /\ (k = 1 \/ line[k - 1] # BSLASH)
      Quoted(k) == inQuote # (Cardinality({m \in ci..(k - 1) : Toggles(m)}) % 2 = 1)
      Counted(ch) == {k \in ci..Len(line) : line[k] = ch /\ ~Toggles(k) /\ ~Quoted(k)}
  IN depth + Cardinality(Counted(LBRACE)) - Cardinality(Counted(RBRACE))

\* the while loop of skipAnnotatedBlock, from cursor j with the given depth
\* the same without the safety valve
RECURSIVE SkipLoopPastHeaders(_, _, _)
SkipLoopPastHeaders(ls, j, depth) ==
  IF j < Len(ls) /\ depth > 0
  THEN LET d == ScanChars(At(ls, j), 1, FALSE, depth)
       IN IF d <= 0 THEN j + 1 ELSE SkipLoopPastHeaders(ls, j + 1, d)
  ELSE j

RECURSIVE SkipLoop(_, _, _)
SkipLoop(ls, j, depth) ==
  IF j < Len(ls) /\ depth > 0
  THEN IF TOOL_HEADER_RE(At(ls, j)) THEN j
       ELSE LET d == ScanChars(At(ls, j), 1, FALSE, depth)
            IN IF d <= 0 THEN j + 1 ELSE SkipLoop(ls, j + 1, d)
  ELSE j

\* the same without the step over the opening line
skipAnnotatedBlockInPlace(ls, startIndex) == SkipLoop(ls, startIndex, 0)

skipAnnotatedBlock(ls, startIndex) == SkipLoop(ls, startIndex + 1, 1)

RESULT_CAPTURE_TOOLS == {"memory_search", "memory_add", "memory_forget", "memory_update"}

\* the while loop of extractAnnotatedResult: the cursor and the collected lines
\* the same collecting the line before the safety valve is tested
RECURSIVE ExtractLoopCollectingFirst(_, _, _, _)
ExtractLoopCollectingFirst(ls, j, depth, collected) ==
  IF j < Len(ls) /\ depth > 0
  THEN LET c == Append(collected, At(ls, j))
           d == ScanChars(At(ls, j), 1, FALSE, depth)
       IN IF TOOL_HEADER_RE(At(ls, j)) THEN [endIndex |-> j, collected |-> c]
          ELSE IF d <= 0 THEN [endIndex |-> j + 1, collected |-> c]
          ELSE ExtractLoopCollectingFirst(ls, j + 1, d, c)
  ELSE [endIndex |-> j, collected |-> collected]

RECURSIVE ExtractLoop(_, _, _, _)
ExtractLoop(ls, j, depth, collected) ==
  IF j < Len(ls) /\ depth > 0
  THEN IF TOOL_HEADER_RE(At(ls, j)) THEN [endIndex |-> j, collected |-> collected]
       ELSE LET c == Append(collected, At(ls, j))
                d == ScanChars(At(ls, j), 1, FALSE, depth)
            IN IF d <= 0 THEN [endIndex |-> j + 1, collected |-> c]
               ELSE ExtractLoop(ls, j + 1, d, c)
  ELSE [endIndex |-> j, collected |-> collected]

\* collected.join("\n"), the line break written as the token NL
RECURSIVE JoinLines(_)
JoinLines(ls) ==
  IF ls = <<>> THEN <<>>
  ELSE IF Len(ls) = 1 THEN ls[1]
  ELSE ls[1] \o <<NL>> \o JoinLines(Tail(ls))

(***************************************************************************)
(* blob.match(/text:\s*"(\{.*?\})"/s): the leftmost text: field whose      *)
(* quoted value opens with a brace, up to the first closing brace that a   *)
(* double quote follows.  JsonMatch returns capture group 1, or <<>> when  *)
(* there is no match (the group is never empty when there is one).         *)
(***************************************************************************)
\* index of the opening brace of a match starting at token s, or 0
JsonOpenAt(blob, s) ==
  IF s + 1 <= Len(blob) /\ blob[s] = "text" /\ blob[s + 1] = ":"
  THEN LET q == SkipWs(blob, s + 2)
       IN IF q + 1 <= Len(blob) /\ blob[q] = QUOTE /\ blob[q + 1] = LBRACE
          THEN q + 1 ELSE 0
  ELSE 0

\* end of the lazy group opened at b: the first } after b that " follows, or 0
JsonCloseFrom(blob, b) ==
  LET ends == {e \in (b + 1)..(Len(blob) - 1) : blob[e] = RBRACE /\ blob[e + 1] = QUOTE}
  IN IF ends = {} THEN 0 ELSE CHOOSE e \in ends : \A f \in ends : e <= f

JsonMatch(blob) ==
  LET starts == {s \in 1..Len(blob) :
                   JsonOpenAt(blob, s) # 0 /\ JsonCloseFrom(blob, JsonOpenAt(blob, s)) # 0}
  IN IF starts = {} THEN <<>>
     ELSE LET s == CHOOSE x \in starts : \A y \in starts : x <= y
              b == JsonOpenAt(blob, s)
          IN SubSeq(blob, b, JsonCloseFrom(blob, b))

(***************************************************************************)
(* raw.replace(/\\n/g, "\n").replace(/\\"/g, '"') (line 149): every        *)
(* backslash-n becomes a line break, then every backslash-quote a quote.   *)
(* A token that starts with the letter n after a backslash is written "n". *)
(***************************************************************************)
\* every pair a b becomes by; a and b differ, so no two pairs overlap
ReplacePair(toks, a, b, by) ==
  LET pairs == {k \in 1..(Len(toks) - 1) : toks[k] = a /\ toks[k + 1] = b}
      kept == SelectSeq([k \in 1..Len(toks) |-> k], LAMBDA k : (k - 1) \notin pairs)
  IN [m \in 1..Len(kept) |-> IF kept[m] \in pairs THEN by ELSE toks[kept[m]]]

\* the same without the second replacement
UnescapeNewlinesOnly(toks) == ReplacePair(toks, BSLASH, "n", NL)

Unescape(toks) == ReplacePair(ReplacePair(toks, BSLASH, "n", NL), BSLASH, QUOTE, QUOTE)

(***************************************************************************)
(* JSON.parse (line 150) on the unescaped tokens.  A value is a record:    *)
(* t is its type, tok the literal of a number or boolean, str the tokens   *)
(* of a string, items the elements of an array, keys and vals the members  *)
(* of an object in source order.  A parse result is [ok, v, next].         *)
(* A raw line break or a backslash inside a string is a syntax error.      *)
(***************************************************************************)
JVal(t, tok, str, items, keys, vals) ==
  [t |-> t, tok |-> tok, str |-> str, items |-> items, keys |-> keys, vals |-> vals]
JNull == JVal("null", "null", <<>>, <<>>, <<>>, <<>>)
JFail == [ok |-> FALSE, v |-> JNull, next |-> 0]
JOk(v, next) == [ok |-> TRUE, v |-> v, next |-> next]

\* number literals and their value in thousandths
NumberValue ==
  [t \in {"0", "1", "2", "3", "4", "0.9", "0.85", "0.875", "1200"} |->
     CASE t = "0" -> 0 [] t = "1" -> 1000 [] t = "2" -> 2000 [] t = "3" -> 3000
       [] t = "4" -> 4000 [] t = "0.9" -> 900 [] t = "0.85" -> 850
       [] t = "0.875" -> 875 [] t = "1200" -> 1200000]

\* toks[p] is the opening quote
ParseString(toks, p) ==
  LET qs == {q \in (p + 1)..Len(toks) : toks[q] = QUOTE}
  IN IF qs = {} THEN JFail
     ELSE LET q == CHOOSE x \in qs : \A y \in qs : x <= y
              body == SubSeq(toks, p + 1, q - 1)
          IN IF \E k \in 1..Len(body) : body[k] \in {NL, BSLASH} THEN JFail
             ELSE JOk(JVal("str", "", body, <<>>, <<>>, <<>>), q + 1)

RECURSIVE ParseValue(_, _)
RECURSIVE ParseElements(_, _, _)
RECURSIVE ParseMembers(_, _, _, _)

ParseValue(toks, p0) ==
  LET p == SkipWs(toks, p0)
  IN IF p > Len(toks) THEN JFail
     ELSE CASE toks[p] = QUOTE -> ParseString(toks, p)
            [] toks[p] = LBRACE ->
                 LET q == SkipWs(toks, p + 1)
                 IN IF q <= Len(toks) /\ toks[q] = RBRACE
                    THEN JOk(JVal("obj", "", <<>>, <<>>, <<>>, <<>>), q + 1)
                    ELSE ParseMembers(toks, q, <<>>, <<>>)
            [] toks[p] = "[" ->
                 LET q == SkipWs(toks, p + 1)
                 IN IF q <= Len(toks) /\ toks[q] = "]"
                    THEN JOk(JVal("arr", "", <<>>, <<>>, <<>>, <<>>), q + 1)
                    ELSE ParseElements(toks, q, <<>>)
            [] toks[p] \in DOMAIN NumberValue ->
                 JOk(JVal("num", toks[p], <<>>, <<>>, <<>>, <<>>), p + 1)
            [] toks[p] \in {"true", "false"} ->
                 JOk(JVal("bool", toks[p], <<>>, <<>>, <<>>, <<>>), p + 1)
            [] toks[p] = "null" -> JOk(JNull, p + 1)
            [] OTHER -> JFail

\* the elements of an array from token p on, those before it in items
ParseElements(toks, p, items) ==
  LET r == ParseValue(toks, p)
  IN IF ~r.ok THEN JFail
     ELSE LET q == SkipWs(toks, r.next)
              all == Append(items, r.v)
          IN IF q > Len(toks) THEN JFail
             ELSE IF toks[q] = "]" THEN JOk(JVal("arr", "", <<>>, all, <<>>, <<>>), q + 1)
             ELSE IF toks[q] = "," THEN ParseElements(toks, q + 1, all)
             ELSE JFail

\* the members of an object from token p on, those before it in keys and vals
ParseMembers(toks, p0, keys, vals) ==
  LET p == SkipWs(toks, p0)
  IN IF p > Len(toks) \/ toks[p] # QUOTE THEN JFail
     ELSE LET k == ParseString(toks, p)
          IN IF ~k.ok THEN JFail
             ELSE LET c == SkipWs(toks, k.next)
                  IN IF c > Len(toks) \/ toks[c] # ":" THEN JFail
                     ELSE LET r == ParseValue(toks, c + 1)
                          IN IF ~r.ok THEN JFail
                             ELSE LET q == SkipWs(toks, r.next)
                                      ks == Append(keys, k.v.str)
                                      vs == Append(vals, r.v)
                                  IN IF q > Len(toks) THEN JFail
                                     ELSE IF toks[q] = RBRACE
                                     THEN JOk(JVal("obj", "", <<>>, <<>>, ks, vs), q + 1)
                                     ELSE IF toks[q] = "," THEN ParseMembers(toks, q + 1, ks, vs)
                                     ELSE JFail

\* JSON.parse: a value and nothing but white space after it
JsonParse(toks) ==
  LET r == ParseValue(toks, 1)
  IN IF r.ok /\ SkipWs(toks, r.next) = Len(toks) + 1 THEN r ELSE JFail

\* data.key: the last member of that name; Has says whether there is one
Has(obj, key) == obj.t = "obj" /\ \E k \in 1..Len(obj.keys) : obj.keys[k] = <<key>>
Get(obj, key) ==
  obj.vals[CHOOSE k \in 1..Len(obj.keys) :
             obj.keys[k] = <<key>> /\ \A m \in (k + 1)..Len(obj.keys) : obj.keys[m] # <<key>>]

\* JavaScript truthiness of a parsed value
Truthy(v) ==
  CASE v.t = "null" -> FALSE
    [] v.t = "bool" -> v.tok = "true"
    [] v.t = "num" -> NumberValue[v.tok] # 0
    [] v.t = "str" -> v.str # <<>>
    [] OTHER -> TRUE

\* the text of `${v}` for the values a count, mode or token tag takes
TextOf(v) ==
  CASE v.t = "str" -> v.str
    [] v.t \in {"num", "bool"} -> <<v.tok>>
    [] v.t = "null" -> <<"null">>
    [] OTHER -> <<"[object Object]">>

\* the number of characters of a text
RECURSIVE TextLen(_)
TextLen(toks) == IF toks = <<>> THEN 0 ELSE Len(toks[1]) + TextLen(Tail(toks))

\* text.slice(0, n): the tokens that fit, and PART for a token cut in two
PART == "<part>"
RECURSIVE SliceText(_, _)
SliceText(toks, n) ==
  IF toks = <<>> \/ n <= 0 THEN <<>>
  ELSE IF Len(toks[1]) <= n THEN <<toks[1]>> \o SliceText(Tail(toks), n - Len(toks[1]))
  ELSE <<PART>>

SnippetLen == 150
ShownResults == 3

\* Math.round(score * 100) of a number literal
ScorePercent(tok) == (NumberValue[tok] + 5) \div 10

\* r.score or r.content on a null entry raises; so does .slice on a content
\* that is neither a string nor an array
EntryThrows(r) ==
  \/ r.t = "null"
  \/ r.t = "obj" /\ Has(r, "content") /\ Get(r, "content").t \in {"num", "bool", "obj"}

\* one line of resultLines (lines 161-163)
EntryLine(r) ==
  LET score == IF Has(r, "score") /\ Get(r, "score").t = "num"
               THEN <<WS, "[", ToString(ScorePercent(Get(r, "score").tok)), "%", "]">>
               ELSE <<>>
      c == IF Has(r, "content") /\ Get(r, "content").t # "null"
           THEN Get(r, "content") ELSE JVal("str", "", <<>>, <<>>, <<>>, <<>>)
      whole == IF c.t = "str" THEN c.str ELSE <<"<array>">>
      content == SliceText(whole, SnippetLen)
      dots == IF TextLen(whole) > SnippetLen THEN <<"...">> ELSE <<>>
  IN \* the two leading blanks and the blank that follows them are one run
     score \o <<WS>> \o content \o dots

\* the same without the limit
RECURSIVE EntryLinesUnlimited(_, _)
EntryLinesUnlimited(items, n) ==
  IF items = <<>> THEN <<>>
  ELSE <<EntryLine(items[1])>> \o EntryLinesUnlimited(Tail(items), n)

RECURSIVE EntryLines(_, _)
EntryLines(items, n) ==
  IF items = <<>> \/ n = 0 THEN <<>>
  ELSE <<EntryLine(items[1])>> \o EntryLines(Tail(items), n - 1)

\* the summary of a parsed payload (lines 152-179); "" is <<>>
\* the same reporting every payload with a success field as stored
FormatSummaryAlwaysStored(data) ==
  IF Has(data, "results") /\ Get(data, "results").t = "arr"
  THEN LET results == Get(data, "results").items
           given == Has(data, "count") /\ Get(data, "count").t # "null"
           count == IF given THEN TextOf(Get(data, "count")) ELSE <<ToString(Len(results))>>
           one == IF given
                  THEN Get(data, "count").t = "num" /\ NumberValue[Get(data, "count").tok] = 1000
                  ELSE Len(results) = 1
           mode == IF Has(data, "mode") /\ Truthy(Get(data, "mode"))
                   THEN <<WS, "(">> \o TextOf(Get(data, "mode")) \o <<")">> ELSE <<>>
           used == IF Has(data, "tokens_used") /\ Truthy(Get(data, "tokens_used"))
                   THEN <<WS>> \o TextOf(Get(data, "tokens_used")) \o <<WS, "tokens">> ELSE <<>>
           first == count \o <<WS, IF one THEN "result" ELSE "results">> \o mode \o used
           more == IF Len(results) > ShownResults
                   THEN <<<<WS, "...", WS, "and", WS, ToString(Len(results) - ShownResults),
                            WS, "more">>>>
                   ELSE <<>>
       IN IF \E k \in 1..Len(results) : k <= ShownResults /\ EntryThrows(results[k])
          THEN <<>>
          ELSE JoinLines(<<first>> \o EntryLines(results, ShownResults) \o more)
  ELSE IF Has(data, "success")
  THEN <<"stored">>
  ELSE <<>>

FormatSummary(data) ==
  IF Has(data, "results") /\ Get(data, "results").t = "arr"
  THEN LET results == Get(data, "results").items
           given == Has(data, "count") /\ Get(data, "count").t # "null"
           count == IF given THEN TextOf(Get(data, "count")) ELSE <<ToString(Len(results))>>
           one == IF given
                  THEN Get(data, "count").t = "num" /\ NumberValue[Get(data, "count").tok] = 1000
                  ELSE Len(results) = 1
           mode == IF Has(data, "mode") /\ Truthy(Get(data, "mode"))
                   THEN <<WS, "(">> \o TextOf(Get(data, "mode")) \o <<")">> ELSE <<>>
           used == IF Has(data, "tokens_used") /\ Truthy(Get(data, "tokens_used"))
                   THEN <<WS>> \o TextOf(Get(data, "tokens_used")) \o <<WS, "tokens">> ELSE <<>>
           first == count \o <<WS, IF one THEN "result" ELSE "results">> \o mode \o used
           more == IF Len(results) > ShownResults
                   THEN <<<<WS, "...", WS, "and", WS, ToString(Len(results) - ShownResults),
                            WS, "more">>>>
                   ELSE <<>>
       IN IF \E k \in 1..Len(results) : k <= ShownResults /\ EntryThrows(results[k])
          THEN <<>>
          ELSE JoinLines(<<first>> \o EntryLines(results, ShownResults) \o more)
  ELSE IF Has(data, "success")
  THEN IF Truthy(Get(data, "success")) THEN <<"stored">> ELSE <<"failed">>
  ELSE <<>>

extractAnnotatedResult(ls, startIndex) ==
  LET scan == ExtractLoop(ls, startIndex + 1, 1, <<>>)
      jsonMatch == JsonMatch(JoinLines(scan.collected))
      data == JsonParse(Unescape(jsonMatch))
  IN [endIndex |-> scan.endIndex,
      summary |-> IF jsonMatch = <<>> \/ ~data.ok THEN <<>> ELSE FormatSummary(data.v)]

(***************************************************************************)
(* Events.  Every event carries every field; a field the source leaves     *)
(* undefined is NONE (a name) or <<>> (a text, the params).  A text is a   *)
(* sequence of tokens with NL between its lines.  progressPercent is kept  *)
(* in tenths of a percent, so 1000 is 100.                                 *)
(***************************************************************************)
NONE == "<undefined>"

Event(type) ==
  [type |-> type, index |-> 0, progressPercent |-> 0, tool |-> NONE, extension |-> NONE,
   params |-> <<>>, command |-> <<>>, provider |-> NONE, model |-> <<>>, phase |-> NONE,
   result |-> <<>>, content |-> <<>>]

RECURSIVE TrimStart(_)
TrimStart(text) ==
  IF text # <<>> /\ text[1] \in {WS, NL} THEN TrimStart(Tail(text)) ELSE text

RECURSIVE TrimEnd(_)
TrimEnd(text) ==
  IF text # <<>> /\ text[Len(text)] \in {WS, NL}
  THEN TrimEnd(SubSeq(text, 1, Len(text) - 1)) ELSE text

\* String.prototype.trim
Trim(text) == TrimEnd(TrimStart(text))

\* the lines of a text
RECURSIVE SplitOn(_, _)
SplitOn(text, sep) ==
  LET cuts == {k \in 1..Len(text) : text[k] = sep}
  IN IF cuts = {} THEN <<text>>
     ELSE LET k == CHOOSE x \in cuts : \A y \in cuts : x <= y
          IN <<SubSeq(text, 1, k - 1)>> \o SplitOn(SubSeq(text, k + 1, Len(text)), sep)

RECURSIVE SelectLines(_, _)
SelectLines(ls, leak) ==
  IF ls = <<>> THEN <<>>
  ELSE IF leak[1] THEN SelectLines(Tail(ls), Tail(leak))
  ELSE <<ls[1]>> \o SelectLines(Tail(ls), Tail(leak))

\* thinkingBuffer.filter((line) => !ANNOTATED_LEAK_RE.test(line))
Cleaned(buffer) == SelectLines(buffer, [k \in 1..Len(buffer) |-> ANNOTATED_LEAK_RE(buffer[k])])

\* /^["'),}\]]/.test(text) || /^text:\s*"/.test(text)
IsDebris(text) ==
  \/ text # <<>> /\ text[1] \in DebrisToks
  \/ StartsWith(text, <<Lit("text"), Lit(":"), OptWs, Lit(QUOTE)>>)

\* flushThinking: the events after the flush (the buffer is always emptied)
\* the same with the reasoning event put in front of the list
flushThinkingFirst(evs, buffer) ==
  LET text == Trim(JoinLines(Cleaned(buffer)))
  IN IF IsDebris(text) THEN evs
     ELSE IF Len(text) > 0
     THEN <<[Event("agent_thinking") EXCEPT !.content = text]>> \o evs
     ELSE evs

\* the same without the removal of leaked lines
flushThinkingUnfiltered(evs, buffer) ==
  LET text == Trim(JoinLines(buffer))
  IN IF IsDebris(text) THEN evs
     ELSE IF Len(text) > 0
     THEN Append(evs, [Event("agent_thinking") EXCEPT !.content = text])
     ELSE evs

flushThinking(evs, buffer) ==
  LET text == Trim(JoinLines(Cleaned(buffer)))
  IN IF IsDebris(text) THEN evs
     ELSE IF Len(text) > 0
     THEN Append(evs, [Event("agent_thinking") EXCEPT !.content = text])
     ELSE evs

\* the same without the test of the tool name
findFirstUnresolvedEvent(evs) ==
  LET open == {k \in 1..Len(evs) : evs[k].type = "tool_call" /\ evs[k].result = <<>>}
  IN IF open = {} THEN 0 ELSE CHOOSE k \in open : \A m \in open : k <= m

\* the same taking the last unresolved event
findLastUnresolvedMemoryEvent(evs) ==
  LET open == {k \in 1..Len(evs) :
                 /\ evs[k].type = "tool_call"
                 /\ evs[k].tool \in RESULT_CAPTURE_TOOLS
                 /\ evs[k].result = <<>>}
  IN IF open = {} THEN 0 ELSE CHOOSE k \in open : \A m \in open : m <= k

\* the same without the test of the result
findFirstMemoryEvent(evs) ==
  LET calls == {k \in 1..Len(evs) :
                  /\ evs[k].type = "tool_call"
                  /\ evs[k].tool \in RESULT_CAPTURE_TOOLS}
  IN IF calls = {} THEN 0 ELSE CHOOSE k \in calls : \A m \in calls : k <= m

findFirstUnresolvedMemoryEvent(evs) ==
  LET open == {k \in 1..Len(evs) :
                 /\ evs[k].type = "tool_call"
                 /\ evs[k].tool \in RESULT_CAPTURE_TOOLS
                 /\ evs[k].result = <<>>}
  IN IF open = {} THEN 0 ELSE CHOOSE k \in open : \A m \in open : k <= m

\* command.includes(phrase): the phrases looked for are tokens of their own
Includes(command, phrase) == \E k \in 1..Len(command) : command[k] = phrase

\* the phase of a shell command (lines 305-309)
\* the same with the push test made first
PhaseOfPushFirst(command) ==
  IF Includes(command, "git push") THEN "pushing"
  ELSE IF Includes(command, "git clone") THEN "cloning"
  ELSE IF Includes(command, "goose run") \/ Includes(command, "AGENT_COMMAND") THEN "agent"
  ELSE IF Includes(command, "git add") \/ Includes(command, "git commit") THEN "committing"
  ELSE NONE

PhaseOf(command) ==
  IF Includes(command, "git clone") THEN "cloning"
  ELSE IF Includes(command, "goose run") \/ Includes(command, "AGENT_COMMAND") THEN "agent"
  ELSE IF Includes(command, "git push") THEN "pushing"
  ELSE IF Includes(command, "git add") \/ Includes(command, "git commit") THEN "committing"
  ELSE NONE

IsStructural(line) ==
  TOOL_HEADER_RE(line) \/ SHELL_CMD_RE(line) \/ SESSION_START_RE(line) \/ APP_RUN_RE(line)

\* the session metadata loop (lines 282-285)
RECURSIVE SessionMetaLoop(_, _)
SessionMetaLoop(ls, j) ==
  IF j < Len(ls) /\ SESSION_META_RE(At(ls, j)) THEN SessionMetaLoop(ls, j + 1) ELSE j

\* the shell output loop (lines 314-332)
\* the same ending the capture at the first block
RECURSIVE ShellOutputLoopEndingAtBlock(_, _, _)
ShellOutputLoopEndingAtBlock(ls, j, outputLines) ==
  IF j < Len(ls)
  THEN LET nextLine == At(ls, j)
       IN IF IsStructural(nextLine) THEN [j |-> j, outputLines |-> outputLines]
          ELSE IF ANNOTATED_START_RE(nextLine)
          THEN [j |-> skipAnnotatedBlock(ls, j), outputLines |-> outputLines]
          ELSE IF ~isNoiseLine(nextLine)
          THEN ShellOutputLoopEndingAtBlock(ls, j + 1, Append(outputLines, nextLine))
          ELSE ShellOutputLoopEndingAtBlock(ls, j + 1, outputLines)
  ELSE [j |-> j, outputLines |-> outputLines]

RECURSIVE ShellOutputLoop(_, _, _)
ShellOutputLoop(ls, j, outputLines) ==
  IF j < Len(ls)
  THEN LET nextLine == At(ls, j)
       IN IF IsStructural(nextLine) THEN [j |-> j, outputLines |-> outputLines]
          ELSE IF ANNOTATED_START_RE(nextLine)
          THEN ShellOutputLoop(ls, skipAnnotatedBlock(ls, j), outputLines)
          ELSE IF ~isNoiseLine(nextLine)
          THEN ShellOutputLoop(ls, j + 1, Append(outputLines, nextLine))
          ELSE ShellOutputLoop(ls, j + 1, outputLines)
  ELSE [j |-> j, outputLines |-> outputLines]

\* params[key] = value: a key already present keeps its place
SetParam(params, key, value) ==
  IF \E k \in 1..Len(params) : params[k].key = key
  THEN [k \in 1..Len(params) |->
          IF params[k].key = key THEN [key |-> key, value |-> value] ELSE params[k]]
  ELSE Append(params, [key |-> key, value |-> value])

HasParam(params, key) == \E k \in 1..Len(params) : params[k].key = key
ParamOf(params, key) == params[CHOOSE k \in 1..Len(params) : params[k].key = key].value

\* the parameter loop (lines 356-370)
\* the same with a noise line ending the collection
RECURSIVE ParamLoopEndingAtNoise(_, _, _)
ParamLoopEndingAtNoise(ls, j, params) ==
  IF j < Len(ls)
  THEN LET paramLine == At(ls, j)
       IN IF ~isNoiseLine(paramLine) /\ TOOL_PARAM_RE(paramLine)
          THEN ParamLoopEndingAtNoise(ls, j + 1,
                 SetParam(params, ParamKey(paramLine), ParamValue(paramLine)))
          ELSE [j |-> j, params |-> params]
  ELSE [j |-> j, params |-> params]

RECURSIVE ParamLoop(_, _, _)
ParamLoop(ls, j, params) ==
  IF j < Len(ls)
  THEN LET paramLine == At(ls, j)
       IN IF isNoiseLine(paramLine) THEN ParamLoop(ls, j + 1, params)
          ELSE IF TOOL_PARAM_RE(paramLine)
          THEN ParamLoop(ls, j + 1, SetParam(params, ParamKey(paramLine), ParamValue(paramLine)))
          ELSE [j |-> j, params |-> params]
  ELSE [j |-> j, params |-> params]

\* the trailing noise loop after a result block (lines 399-401)
RECURSIVE NoiseLoop(_, _)
NoiseLoop(ls, j) == IF j < Len(ls) /\ isNoiseLine(At(ls, j)) THEN NoiseLoop(ls, j + 1) ELSE j

\* the tool output loop (lines 379-408)
\* the same going on after a block as the shell loop does
RECURSIVE ToolOutputLoopPastBlock(_, _, _, _)
ToolOutputLoopPastBlock(ls, j, tool, outputLines) ==
  IF j < Len(ls)
  THEN LET nextLine == At(ls, j)
       IN IF IsStructural(nextLine)
          THEN [j |-> j, outputLines |-> outputLines, toolResult |-> <<>>]
          ELSE IF ANNOTATED_START_RE(nextLine)
          THEN ToolOutputLoopPastBlock(ls, skipAnnotatedBlock(ls, j), tool, outputLines)
          ELSE IF ~isNoiseLine(nextLine)
          THEN ToolOutputLoopPastBlock(ls, j + 1, tool, Append(outputLines, nextLine))
          ELSE ToolOutputLoopPastBlock(ls, j + 1, tool, outputLines)
  ELSE [j |-> j, outputLines |-> outputLines, toolResult |-> <<>>]

RECURSIVE ToolOutputLoop(_, _, _, _)
ToolOutputLoop(ls, j, tool, outputLines) ==
  IF j < Len(ls)
  THEN LET nextLine == At(ls, j)
       IN IF IsStructural(nextLine)
          THEN [j |-> j, outputLines |-> outputLines, toolResult |-> <<>>]
          ELSE IF ANNOTATED_START_RE(nextLine)
          THEN IF tool \in RESULT_CAPTURE_TOOLS
               THEN LET extracted == extractAnnotatedResult(ls, j)
                    IN [j |-> NoiseLoop(ls, extracted.endIndex), outputLines |-> outputLines,
                        toolResult |-> extracted.summary]
               ELSE [j |-> NoiseLoop(ls, skipAnnotatedBlock(ls, j)),
                     outputLines |-> outputLines, toolResult |-> <<>>]
          ELSE IF ~isNoiseLine(nextLine)
          THEN ToolOutputLoop(ls, j + 1, tool, Append(outputLines, nextLine))
          ELSE ToolOutputLoop(ls, j + 1, tool, outputLines)
  ELSE [j |-> j, outputLines |-> outputLines, toolResult |-> <<>>]

\* fullPath.split("/") counts the segments; a path has "/" as a token of its own
RECURSIVE LastSegments(_, _)
LastSegments(segments, n) ==
  IF Len(segments) <= n THEN segments ELSE LastSegments(Tail(segments), n)

RECURSIVE JoinWith(_, _)
JoinWith(parts, sep) ==
  IF parts = <<>> THEN <<>>
  ELSE IF Len(parts) = 1 THEN parts[1]
  ELSE parts[1] \o <<sep>> \o JoinWith(Tail(parts), sep)

KeptSegments == 3

\* the same shortening a path of three segments too
shortenPathFromThree(fullPath) ==
  LET marks == {k \in 1..(Len(fullPath) - 2) :
                  fullPath[k] = "/" /\ fullPath[k + 1] = "repo" /\ fullPath[k + 2] = "/"}
      segments == SplitOn(fullPath, "/")
  IN IF marks # {}
     THEN SubSeq(fullPath, (CHOOSE k \in marks : \A m \in marks : k <= m) + 3, Len(fullPath))
     ELSE IF Len(segments) >= KeptSegments
     THEN <<"...", "/">> \o JoinWith(LastSegments(segments, KeptSegments), "/")
     ELSE fullPath

shortenPath(fullPath) ==
  LET marks == {k \in 1..(Len(fullPath) - 2) :
                  fullPath[k] = "/" /\ fullPath[k + 1] = "repo" /\ fullPath[k + 2] = "/"}
      segments == SplitOn(fullPath, "/")
  IN IF marks # {}
     THEN SubSeq(fullPath, (CHOOSE k \in marks : \A m \in marks : k <= m) + 3, Len(fullPath))
     ELSE IF Len(segments) > KeptSegments
     THEN <<"...", "/">> \o JoinWith(LastSegments(segments, KeptSegments), "/")
     ELSE fullPath

\* the summary line of a tool call (lines 411-418)
ToolSummary(tool, params) ==
  IF HasParam(params, "path") THEN <<tool, ":", WS>> \o shortenPath(ParamOf(params, "path"))
  ELSE IF HasParam(params, "command") THEN <<tool, ":", WS>> \o ParamOf(params, "command")
  ELSE IF HasParam(params, "query")
  THEN <<tool, ":", WS, QUOTE>> \o ParamOf(params, "query") \o <<QUOTE>>
  ELSE <<tool>>

\* summary or first line, then the captured output when there is any
WithOutput(first, outputLines) ==
  LET output == Trim(JoinLines(outputLines))
  IN IF output # <<>> THEN first \o <<NL>> \o output ELSE first

(***************************************************************************)
(* The progress post-pass (lines 443-469).                                 *)
(***************************************************************************)
\* the same with the run header counted among the significant events
SignificantWithInfo(e) == e.type \in {"tool_call", "agent_thinking", "session_start", "info"}

Significant(e) == e.type \in {"tool_call", "agent_thinking", "session_start"}

RECURSIVE CountSignificant(_)
CountSignificant(evs) ==
  IF evs = <<>> THEN 0
  ELSE (IF Significant(evs[1]) THEN 1 ELSE 0) + CountSignificant(Tail(evs))

Scale == 1000

\* the same with the division by ten forgotten
ProgressOfUnscaled(significantIndex, totalSignificant) ==
  IF totalSignificant > 0
  THEN 10 * ((2 * Scale * (significantIndex + 1) + totalSignificant) \div (2 * totalSignificant))
  ELSE 0

\* the same counting from zero
ProgressOfZeroBased(significantIndex, totalSignificant) ==
  IF totalSignificant > 0
  THEN (2 * Scale * significantIndex + totalSignificant) \div (2 * totalSignificant)
  ELSE 0

\* the same rounded to a whole percent
ProgressOfWholePercent(significantIndex, totalSignificant) ==
  IF totalSignificant > 0
  THEN 10 * ((2 * 100 * (significantIndex + 1) + totalSignificant) \div (2 * totalSignificant))
  ELSE 0

\* Math.round(((significantIndex + 1) / totalSignificant) * 1000) / 10, in tenths:
\* the quotient rounded half up
ProgressOf(significantIndex, totalSignificant) ==
  IF totalSignificant > 0
  THEN (2 * Scale * (significantIndex + 1) + totalSignificant) \div (2 * totalSignificant)
  ELSE 0

\* The quotient is computed in doubles.  When it lies exactly half way between
\* two tenths (which needs totalSignificant to be a multiple of 16) the double
\* may fall just below the half, and Math.round then gives the lower tenth.
HalfWay(significantIndex, totalSignificant) ==
  totalSignificant > 0
    /\ (2 * Scale * (significantIndex + 1)) % (2 * totalSignificant) = totalSignificant

ProgressValues(significantIndex, totalSignificant) ==
  {ProgressOf(significantIndex, totalSignificant)}
    \cup (IF HalfWay(significantIndex, totalSignificant)
          THEN {ProgressOf(significantIndex, totalSignificant) - 1} ELSE {})

\* the same with the values of committing and pushing exchanged
PhasePercentExchanged(phase) ==
  CASE phase = "cloning" -> 50
    [] phase = "agent" -> 100
    [] phase = "committing" -> 950
    [] phase = "pushing" -> 880
    [] OTHER -> 0

PhasePercent(phase) ==
  CASE phase = "cloning" -> 50
    [] phase = "agent" -> 100
    [] phase = "committing" -> 880
    [] phase = "pushing" -> 950
    [] OTHER -> 0

\* the same numbering the events from one
AssignProgressFromOne(evs) ==
  LET total == CountSignificant(evs)
  IN [idx \in 1..Len(evs) |->
        LET e == evs[idx]
            before == CountSignificant(SubSeq(evs, 1, idx - 1))
        IN [e EXCEPT !.index = idx,
                     !.progressPercent =
                        IF Significant(e) THEN ProgressOf(before, total)
                        ELSE IF e.type = "phase_marker" THEN PhasePercent(e.phase)
                        ELSE e.progressPercent]]

AssignProgress(evs) ==
  LET total == CountSignificant(evs)
  IN [idx \in 1..Len(evs) |->
        LET e == evs[idx]
            before == CountSignificant(SubSeq(evs, 1, idx - 1))
        IN [e EXCEPT !.index = idx - 1,
                     !.progressPercent =
                        IF Significant(e) THEN ProgressOf(before, total)
                        ELSE IF e.type = "phase_marker" THEN PhasePercent(e.phase)
                        ELSE e.progressPercent]]

(***************************************************************************)
(* The lines the inputs are made of.                                       *)
(***************************************************************************)
Header(tool, extension) == <<RULE, WS, tool, WS, "|", WS, extension, WS, RULE>>
Param(key, value) == <<key, ":", WS>> \o value

BlankLine == <<>>
BannerLine == <<"---", WS, "loading", WS, ".bash_profile">>
IndentedBanner == <<WS>> \o BannerLine
SecretsLine == <<TADA, WS, "All secrets loaded from cache">>
AppRunLine == <<"Gooseherd", WS, "run", WS, "abc-123">>
SessionLine == <<"starting session | provider:", WS, "openrouter", " model: ", "grok-4">>
SessionMetaLine == <<WS, "session id", ":", WS, "20260217_5">>
LsLine == <<"$", WS, "ls">>
PushLine == <<"$", WS, "git push", WS, "origin">>
CloneLine == <<"$", WS, "git clone", WS, "url">>
SearchHeader == Header("memory_search", "cems")
ShellHeader == Header("shell", "developer")
QueryLine == Param("query", <<"SEO improvements">>)
ThinkLine == <<"Now I understand the CSS structure.">>
OutputLine == <<"file1.txt">>

OpenLine == <<"Annotated", WS, LBRACE>>
RawLine == <<WS, "raw", ":", WS, "Text(">>
RawTextLine == <<WS, "RawTextContent", WS, LBRACE>>
TextLine(payload) == <<WS, "text", ":", WS, QUOTE>> \o payload \o <<QUOTE, ",">>
MetaNoneLine == <<WS, "meta", ":", WS, "None", ",">>
InnerCloseLine == <<WS, RBRACE, ",">>
ParenCloseLine == <<WS, ")", ",">>
AnnotationsLine == <<WS, "annotations", ":", WS, "None", ",">>
CloseLine == <<RBRACE>>

\* the block as the agent prints it, one field per line
Block(payload) ==
  <<OpenLine, RawLine, RawTextLine, TextLine(payload), MetaNoneLine, InnerCloseLine,
    ParenCloseLine, AnnotationsLine, CloseLine>>

\* a JSON string inside the quoted text field: its quotes are escaped
JStr(s) == <<BSLASH, QUOTE, s, BSLASH, QUOTE>>
Entry(content, score) ==
  <<LBRACE>> \o JStr("content") \o <<":">> \o JStr(content) \o <<",">> \o JStr("score")
    \o <<":", score, RBRACE>>
OneResult ==
  <<LBRACE>> \o JStr("results") \o <<":", "[">> \o Entry("Previous SEO work", "0.9")
    \o <<"]", ",">> \o JStr("count") \o <<":", "1", RBRACE>>
NoResults ==
  <<LBRACE>> \o JStr("results") \o <<":", "[", "]", ",">> \o JStr("count") \o <<":", "0", RBRACE>>
Stored == <<LBRACE>> \o JStr("success") \o <<":", "true", RBRACE>>
PlainText == <<"SUMMARY">>

RECURSIVE Flatten(_)
Flatten(segments) ==
  IF segments = <<>> THEN <<>> ELSE Head(segments) \o Flatten(Tail(segments))

\* every sequence over S of length 1..n
SeqsUpTo(S, n) == UNION {[1..m -> S] : m \in 1..n}

(***************************************************************************)
(* The inputs.  rawLog.split("\n") never returns an empty array: the empty *)
(* string is one blank line, and a text that ends in a line break ends in  *)
(* a blank line.                                                           *)
(***************************************************************************)
MaxSegments == 3

\* free mixtures of the line kinds
SoupSegments ==
  {<<BlankLine>>, <<IndentedBanner>>, <<AppRunLine>>, <<SessionLine>>, <<SessionMetaLine>>,
   <<LsLine>>, <<PushLine>>, <<SearchHeader>>, <<ShellHeader>>, <<QueryLine>>, <<ThinkLine>>,
   <<MetaNoneLine>>, <<OpenLine>>, <<CloseLine>>, Block(OneResult)}

SoupInputs == {Flatten(ss) : ss \in SeqsUpTo(SoupSegments, MaxSegments)}

\* logs made of noise only
MaxNoise == 4
ZshLine == <<"zsh", ":", "12", ":", WS, "command not found:", WS, "goose">>
CacheLine == <<"[env]", WS, "All secrets loaded from cache">>
NoiseLines == {BlankLine, <<WS>>, BannerLine, SecretsLine, ZshLine, CacheLine}
NoiseInputs == SeqsUpTo(NoiseLines, MaxNoise)

\* a batch: n headers with their parameter lines, then n result blocks
MaxBatch == 3
Queries == <<"SEO improvements", "past mistakes", "nonexistent topic", "one more">>
TwoResults ==
  <<LBRACE>> \o JStr("results") \o <<":", "[">> \o Entry("Correction: use flex", "0.85")
    \o <<",">> \o Entry("Older note", "0.875") \o <<"]", RBRACE>>
BatchPayloads == {OneResult, NoResults, TwoResults}
BatchCall(k) == <<SearchHeader, Param("query", <<Queries[k]>>), Param("project", <<"org/repo">>)>>
BatchInput(n, payloads) ==
  Flatten([k \in 1..n |-> BatchCall(k)]) \o Flatten([k \in 1..n |-> Block(payloads[k])])
    \o <<BlankLine>>
BatchInputs ==
  {BatchInput(n, ps) : n \in 2..MaxBatch, ps \in [1..MaxBatch -> BatchPayloads]}

\* Scenario B: one call with its result inline, the block on one line or on several
OneLineBlock(payload) ==
  <<"Annotated", WS, LBRACE, WS, "raw", ":", WS, "Text(", "RawTextContent", WS, LBRACE, WS,
    "text", ":", WS, QUOTE>> \o payload
    \o <<QUOTE, ",", WS, "meta", ":", WS, "None", WS, RBRACE, ")", ",", WS, "annotations", ":",
         WS, "None", WS, RBRACE>>
MaxOutput == 2
OutputLines(n) == [k \in 1..n |-> <<"out", ToString(k)>>]
InlineInput(output, block) ==
  <<SearchHeader, QueryLine>> \o OutputLines(output) \o block \o <<BlankLine>>
OneLineInputs == {InlineInput(n, <<OneLineBlock(OneResult)>>) : n \in 0..MaxOutput}
ManyLineInputs == {InlineInput(n, Block(OneResult)) : n \in 0..MaxOutput}

\* Scenario D: braces inside the quoted text of a block, text after the block
AnalyzeHeader == Header("analyze", "developer")
PathLine == Param("path", <<"/", "tmp", "/", "repo">>)
CssBalanced ==
  <<".container", WS, LBRACE, WS, "display: flex;", WS, RBRACE, WS, "body", WS, LBRACE, WS,
    "margin: 0;", WS, RBRACE>>
CssOpen == <<".header", WS, LBRACE, WS, "color: red;">>
CssClose == <<"color: red;", WS, RBRACE, WS, RBRACE>>
CssEscaped == <<"a", WS, BSLASH, QUOTE, WS, RBRACE, WS, BSLASH, QUOTE, WS, LBRACE>>
CssPayloads == {CssBalanced, CssOpen, CssClose, CssEscaped}
BracePrefixes == {<<AnalyzeHeader, PathLine, BlankLine>>, <<SearchHeader, QueryLine>>, <<>>}
BraceInput(prefix, payload) ==
  prefix \o Block(payload) \o <<BlankLine, ThinkLine, BlankLine>>
BraceInputs == {BraceInput(pre, css) : pre \in BracePrefixes, css \in CssPayloads}

\* runs of events of every kind the progress pass tells apart
MaxEvents == 4
EventLines == {SearchHeader, LsLine, PushLine, AppRunLine, ThinkLine}
EventInputs == SeqsUpTo(EventLines, MaxEvents)

\* command lines: the phrases the phase test looks for, alone and in pairs
MaxPhrases == 2
CommandPhrases ==
  {"git clone", "goose run", "AGENT_COMMAND", "git push", "git add", "git commit", "ls"}
CommandLine(phrases) == <<"$", WS>> \o JoinWith([k \in 1..Len(phrases) |-> <<phrases[k]>>], WS)
CommandInputs == {<<CommandLine(ps)>> : ps \in SeqsUpTo(CommandPhrases, MaxPhrases)}

\* a header followed by parameter lines, a blank line, free text or a command
MaxParamLines == 3
ProjectLine == Param("project", <<"org/repo">>)
AfterHeaderLines == {QueryLine, ProjectLine, BlankLine, ThinkLine, LsLine}
ParamInputs == {<<SearchHeader>> \o ls : ls \in SeqsUpTo(AfterHeaderLines, MaxParamLines)}

\* a header with the parameters the summary reads: paths under /repo/, with
\* more than three segments, with three, with three after a leading slash
MaxSummaryParams == 2
RepoPathLine ==
  Param("path", <<"/", "work", "/", "repo", "/", "src", "/", "app.css">>)
LongPathLine == Param("path", <<"/", "var", "/", "tmp", "/", "out", "/", "a.txt">>)
ShortPathLine == Param("path", <<"src", "/", "lib", "/", "a.ts">>)
RootedPathLine == Param("path", <<"/", "src", "/", "lib", "/", "a.ts">>)
CommandParamLine == Param("command", <<"npm", WS, "test">>)
SummaryLines ==
  {RepoPathLine, LongPathLine, ShortPathLine, RootedPathLine, CommandParamLine, QueryLine}
SummaryInputs ==
  {<<ShellHeader>>} \cup
  {<<ShellHeader>> \o ls : ls \in SeqsUpTo(SummaryLines, MaxSummaryParams)}

\* Scenario A: one run header, with and without a line break after it
RunHeaderLines ==
  {<<word, WS, "run", WS, id>> : word \in {"Gooseherd", "run", "git"},
                                 id \in {"abc-123", "run", "query"}}
RunHeaderInputs == {<<l>> : l \in RunHeaderLines} \cup {<<l, BlankLine>> : l \in RunHeaderLines}

\* pending calls, a run header, then their result blocks: payloads that give
\* a summary and payloads that give none
AddHeader == Header("memory_add", "cems")
StoredFalse == <<LBRACE>> \o JStr("success") \o <<":", "false", RBRACE>>
PendingCalls == {<<SearchHeader>>, <<SearchHeader, AddHeader>>}
PendingPayloads == {OneResult, NoResults, Stored, StoredFalse, PlainText}
PendingInput(calls, payloads) ==
  calls \o <<AppRunLine>> \o Flatten([k \in 1..Len(payloads) |-> Block(payloads[k])])
PendingInputs ==
  {PendingInput(calls, ps) : calls \in PendingCalls, ps \in SeqsUpTo(PendingPayloads, 2)}

\* one call with its result block inline and free text after it: payloads
\* with a success field, of no known shape, that JSON.parse rejects, whose
\* formatting raises, and a block without a text field
Unparseable == <<LBRACE, "oops", RBRACE>>
UnknownShape == <<LBRACE>> \o JStr("ok") \o <<":", "true", RBRACE>>
NullEntry == <<LBRACE>> \o JStr("results") \o <<":", "[", "null", "]", RBRACE>>
ResultPayloads == {Stored, StoredFalse, PlainText, Unparseable, UnknownShape, NullEntry}
NoTextBlock ==
  <<OpenLine, RawLine, RawTextLine, MetaNoneLine, InnerCloseLine, ParenCloseLine,
    AnnotationsLine, CloseLine>>
ResultBlocks == {Block(p) : p \in ResultPayloads} \cup {NoTextBlock}
PayloadInputs ==
  {<<h>> \o block \o <<ThinkLine>> : h \in {SearchHeader, AddHeader}, block \in ResultBlocks}

\* one command line of each phrase among events of the other kinds
AroundCommand == {<<>>, <<ThinkLine>>, <<SearchHeader>>, <<AppRunLine>>}
MilestoneInputs ==
  {pre \o <<CommandLine(<<phrase>>)>> \o post \o post :
     phrase \in CommandPhrases, pre \in AroundCommand, post \in AroundCommand \ {<<ThinkLine>>}}

\* the first line the executor writes to a run log (executor.ts 181): the
\* application name, ` run `, the run id and, for a follow-up run, the suffix
\* that names the parent run
LogHeader(appName, id, parentRunId) ==
  appName \o <<WS, "run", WS, id>>
    \o (IF parentRunId # NONE THEN <<WS, "(follow-up from", WS, parentRunId, ")">> ELSE <<>>)
AppNames == {<<"Gooseherd">>, <<"Goose", WS, "Herd">>}
LogHeaders ==
  {LogHeader(appName, "abc-123", parent) : appName \in AppNames, parent \in {NONE, "run"}}
\* a run log: the header, then the clone command and what follows
ExecutorInputs ==
  {<<header>> \o rest : header \in LogHeaders,
                        rest \in {<<>>, <<CloneLine>>, <<CloneLine, SessionLine, ThinkLine>>}}

\* a call with its result inline, then a pending call, a call with its
\* result inline and the block of the pending call
ResolvedThenPending ==
  {<<SearchHeader>> \o Block(OneResult) \o <<AddHeader, SearchHeader>> \o Block(inline)
     \o Block(late) : inline \in {NoResults, OneResult}, late \in {Stored, StoredFalse}}

\* free text, a noise line, an orphaned block, a noise line and free text
\* again, alone and between two structural lines
InterruptedReasoning ==
  {pre \o <<ThinkLine, BlankLine>> \o Block(OneResult) \o <<ZshLine, QueryLine>> \o post :
     pre \in {<<>>, <<AppRunLine>>}, post \in {<<>>, <<CloneLine>>}}

Inputs ==
  SoupInputs \cup NoiseInputs \cup BatchInputs \cup OneLineInputs \cup ManyLineInputs
    \cup BraceInputs \cup EventInputs \cup CommandInputs \cup ParamInputs \cup SummaryInputs
    \cup RunHeaderInputs \cup PendingInputs \cup PayloadInputs
    \cup MilestoneInputs \cup ExecutorInputs \cup ResolvedThenPending
    \cup InterruptedReasoning

(***************************************************************************)
(* getEventStats (lines 491-522).  tools is a function from the tool names *)
(* met to their counts.                                                    *)
(***************************************************************************)
NoTools == [name \in {} |-> 0]

\* tools[name] = (tools[name] ?? 0) + 1
Bump(tools, name) ==
  IF name \in DOMAIN tools THEN [tools EXCEPT ![name] = @ + 1] ELSE tools @@ (name :> 1)

\* event.tool ?? "unknown"
ToolName(event) == IF event.tool = NONE THEN "unknown" ELSE event.tool

\* the same counting a phase marker as nothing
RECURSIVE StatsLoopShellOnly(_, _)
StatsLoopShellOnly(evs, acc) ==
  IF evs = <<>> THEN acc
  ELSE LET event == evs[1]
       IN StatsLoopShellOnly(Tail(evs),
            IF event.type = "tool_call"
            THEN [acc EXCEPT !.toolCalls = @ + 1, !.tools = Bump(@, ToolName(event))]
            ELSE IF event.type = "agent_thinking"
            THEN [acc EXCEPT !.thinkingBlocks = @ + 1]
            ELSE IF event.type = "shell_cmd"
            THEN [acc EXCEPT !.shellCommands = @ + 1]
            ELSE acc)

\* the loop of lines 503-513
RECURSIVE StatsLoop(_, _)
StatsLoop(evs, acc) ==
  IF evs = <<>> THEN acc
  ELSE LET event == evs[1]
       IN StatsLoop(Tail(evs),
            IF event.type = "tool_call"
            THEN [acc EXCEPT !.toolCalls = @ + 1, !.tools = Bump(@, ToolName(event))]
            ELSE IF event.type = "agent_thinking"
            THEN [acc EXCEPT !.thinkingBlocks = @ + 1]
            ELSE IF event.type = "shell_cmd" \/ event.type = "phase_marker"
            THEN [acc EXCEPT !.shellCommands = @ + 1]
            ELSE acc)

getEventStats(evs) ==
  StatsLoop(evs, [totalEvents |-> Len(evs), toolCalls |-> 0, thinkingBlocks |-> 0,
                  shellCommands |-> 0, tools |-> NoTools])

(***************************************************************************)
(* The run store (store.ts) and the recovery at startup (index.ts).  A run *)
(* record keeps the fields the recovery reads or writes, and task for the  *)
(* fields it copies.                                                       *)
(***************************************************************************)
RunStatus == {"queued", "running", "validating", "pushing", "completed", "failed"}

\* the same without the pushing status
InProgressWithoutPushing(run) == run.status \in {"queued", "running", "validating"}

\* the test of lines 220-225
InProgress(run) == run.status \in {"queued", "running", "validating", "pushing"}

\* the loop of lines 218-237: the runs after it and the runs recovered
RECURSIVE RecoverLoop(_, _, _, _)
RecoverLoop(stateRuns, index, recovered, reason) ==
  IF index > Len(stateRuns) THEN [runs |-> stateRuns, recovered |-> recovered]
  ELSE LET run == stateRuns[index]
           next == [run EXCEPT !.status = "queued", !.phase = "queued", !.startedAt = NONE,
                               !.finishedAt = NONE, !.error = reason]
       IN IF InProgress(run)
          THEN RecoverLoop([stateRuns EXCEPT ![index] = next], index + 1,
                           Append(recovered, next), reason)
          ELSE RecoverLoop(stateRuns, index + 1, recovered, reason)

\* recoverInProgressRuns: the file after the call and the value returned
recoverInProgressRuns(fileRuns, reason) ==
  LET looped == RecoverLoop(fileRuns, 1, <<>>, reason)
  IN [runs |-> IF Len(looped.recovered) > 0 THEN looped.runs ELSE fileRuns,
      recovered |-> looped.recovered]

RecoveryReason == "Recovered after process restart. Auto-requeued."

\* the runs a store file can hold
MaxRuns == 3
RunShapes ==
  {[status |-> "queued", phase |-> "queued", startedAt |-> NONE, finishedAt |-> NONE,
    error |-> NONE],
   [status |-> "queued", phase |-> "queued", startedAt |-> NONE, finishedAt |-> NONE,
    error |-> RecoveryReason],
   [status |-> "running", phase |-> "cloning", startedAt |-> "t1", finishedAt |-> NONE,
    error |-> NONE],
   [status |-> "running", phase |-> "agent", startedAt |-> "t1", finishedAt |-> NONE,
    error |-> RecoveryReason],
   [status |-> "validating", phase |-> "validating", startedAt |-> "t1", finishedAt |-> NONE,
    error |-> NONE],
   [status |-> "pushing", phase |-> "pushing", startedAt |-> "t1", finishedAt |-> NONE,
    error |-> NONE],
   [status |-> "completed", phase |-> "completed", startedAt |-> "t1", finishedAt |-> "t2",
    error |-> NONE],
   [status |-> "failed", phase |-> "failed", startedAt |-> "t1", finishedAt |-> "t2",
    error |-> "boom"],
   [status |-> "failed", phase |-> "failed", startedAt |-> NONE, finishedAt |-> "t2",
    error |-> "Process restarted"]}

\* createRun gives every run an id of its own
RunId(k) == "run-" \o ToString(k)
StoredRun(k, shape) ==
  [id |-> RunId(k), task |-> "task of " \o RunId(k), status |-> shape.status,
   phase |-> shape.phase, startedAt |-> shape.startedAt, finishedAt |-> shape.finishedAt,
   error |-> shape.error]
StoreFiles ==
  {<<>>} \cup {[k \in 1..n |-> StoredRun(k, shapes[k])] :
                 n \in 1..MaxRuns, shapes \in [1..MaxRuns -> RunShapes]}

(***************************************************************************)
(* State.  lines, i, events and thinkingBuffer are the locals of           *)
(* parseRunLog and pc its place: in the main loop or returned.  origin is  *)
(* a history of the parse: for every event the index of the line that      *)
(* started it, the index of the first line of the thinking buffer (-1 when *)
(* it is empty), the iterations of the main loop so far and the event      *)
(* index each top-level block was matched to.  earlier holds what a first  *)
(* call of parseRunLog on the same string returned, stats the calls of     *)
(* getEventStats made on the returned list.  meter holds the locals of the *)
(* progress loop (lines 454-461) run on its own over totalSignificant      *)
(* significant events: the index, the value just assigned and the one      *)
(* assigned before it.  runs is the content of the store file, recovered   *)
(* the value main keeps from recoverInProgressRuns, queue the run ids      *)
(* added to the run queue.                                                 *)
(* scanned holds a start index, which of skipAnnotatedBlock and            *)
(* extractAnnotatedResult were called on their own with lines and that     *)
(* index, what they returned and the lines the extractor collected.        *)
(***************************************************************************)
VARIABLES lines, i, events, thinkingBuffer, pc, origin, earlier, stats, meter,
          runs, recovered, queue, scanned, runStore, manager, execution

vars == <<lines, i, events, thinkingBuffer, pc, origin, earlier, stats, meter,
          runs, recovered, queue, scanned, runStore, manager, execution>>

callerVars == <<earlier, stats>>
storeVars == <<runs, recovered, queue>>
serviceVars == <<runStore, manager, execution>>

Meter(totalSignificant) ==
  [totalSignificant |-> totalSignificant, significantIndex |-> 0, previous |-> 0,
   progressPercent |-> 0]

NoOrigin == [events |-> <<>>, buffer |-> -1, iterations |-> 0, targets |-> <<>>]
NoEarlier == [called |-> FALSE, events |-> <<>>]
NoStats == [calls |-> 0, of |-> <<>>, value |-> getEventStats(<<>>),
            previous |-> getEventStats(<<>>)]

\* the locals of a call of parseRunLog (lines 203-206)
Enter ==
  /\ i = 0
  /\ events = <<>>
  /\ thinkingBuffer = <<>>
  /\ pc = "loop"
  /\ origin = NoOrigin

NoCaller == earlier = NoEarlier /\ stats = NoStats
NoStore == runs = <<>> /\ recovered = <<>> /\ queue = <<>>
NoRunStore == [file |-> <<>>, initial |-> <<>>, lock |-> 0, resolved |-> {0}, calls |-> <<>>]
\* processRun not called: the stored run, the locals of processRun and what
\* the executor still does
NoManager ==
  [pc |-> "idle", run |-> [status |-> "queued", phase |-> "queued", startedAt |-> NONE,
                           finishedAt |-> NONE, error |-> NONE, statusMessageTs |-> NONE,
                           prUrl |-> NONE],
   stored |-> <<>>, heartbeat |-> FALSE, heartbeatTick |-> 0, currentPhase |-> "cloning",
   statusMessageTs |-> NONE, message |-> NONE, phases |-> <<>>, prUrl |-> NONE]
\* execute not called
NoExecution ==
  [pc |-> "idle", maxValidationRounds |-> 0, lintFixCommand |-> FALSE, attempt |-> 0,
   validations |-> <<>>, agentRuns |-> 0, lintRuns |-> 0, phases |-> <<>>, error |-> NONE]
NoService == runStore = NoRunStore /\ manager = NoManager /\ execution = NoExecution
Scan(startIndex) ==
  [startIndex |-> startIndex, called |-> {}, skipped |-> 0,
   extracted |-> [endIndex |-> 0, summary |-> <<>>], collected |-> <<>>]

Init ==
  /\ lines \in Inputs
  /\ Enter
  /\ NoCaller
  /\ meter = Meter(0)
  /\ NoStore
  /\ scanned = Scan(0)
  /\ NoService

Looping == pc = "loop" /\ i < Len(lines)
Cur == At(lines, i)

\* the origins after a flush that appended (or not) the thinking event
Flushed(flushed) ==
  IF Len(flushed) > Len(events) THEN Append(origin.events, origin.buffer) ELSE origin.events

\* lines 240-243
NoiseSkip ==
  /\ Looping /\ isNoiseLine(Cur)
  /\ i' = i + 1
  /\ origin' = [origin EXCEPT !.iterations = @ + 1]
  /\ UNCHANGED <<lines, events, thinkingBuffer, pc, callerVars, meter, storeVars, scanned, serviceVars>>

\* lines 249-261
OrphanBlock ==
  /\ Looping /\ ~isNoiseLine(Cur) /\ ANNOTATED_START_RE(Cur)
  /\ LET unresolvedIdx == findFirstUnresolvedMemoryEvent(events)
         extracted == extractAnnotatedResult(lines, i)
     IN IF unresolvedIdx # 0
        THEN /\ i' = extracted.endIndex
             /\ events' = IF extracted.summary # <<>>
                          THEN [events EXCEPT ![unresolvedIdx].result = extracted.summary]
                          ELSE events
        ELSE /\ i' = skipAnnotatedBlock(lines, i)
             /\ events' = events
  /\ origin' = [origin EXCEPT !.iterations = @ + 1,
                               !.targets = IF findFirstUnresolvedMemoryEvent(events) # 0
                                           THEN Append(@, findFirstUnresolvedMemoryEvent(events))
                                           ELSE @]
  /\ UNCHANGED <<lines, thinkingBuffer, pc, callerVars, meter, storeVars, scanned, serviceVars>>

TopLevel == Looping /\ ~isNoiseLine(Cur) /\ ~ANNOTATED_START_RE(Cur)

\* lines 264-275
AppRun ==
  /\ TopLevel /\ APP_RUN_RE(Cur)
  /\ LET flushed == flushThinking(events, thinkingBuffer)
     IN /\ events' = Append(flushed, [Event("info") EXCEPT !.content = Cur])
        /\ origin' = [events |-> Append(Flushed(flushed), i), buffer |-> -1,
                   iterations |-> origin.iterations + 1, targets |-> origin.targets]
  /\ thinkingBuffer' = <<>>
  /\ i' = i + 1
  /\ UNCHANGED <<lines, pc, callerVars, meter, storeVars, scanned, serviceVars>>

\* lines 278-296
SessionStart ==
  /\ TopLevel /\ ~APP_RUN_RE(Cur) /\ SESSION_START_RE(Cur)
  /\ LET flushed == flushThinking(events, thinkingBuffer)
     IN /\ events' = Append(flushed,
                        [Event("session_start") EXCEPT
                           !.provider = ProviderOf(Cur), !.model = ModelOf(Cur),
                           !.content = <<"Session started with", WS, ProviderOf(Cur), WS, "/", WS>>
                                         \o ModelOf(Cur)])
        /\ origin' = [events |-> Append(Flushed(flushed), i), buffer |-> -1,
                   iterations |-> origin.iterations + 1, targets |-> origin.targets]
  /\ thinkingBuffer' = <<>>
  /\ i' = SessionMetaLoop(lines, i + 1)
  /\ UNCHANGED <<lines, pc, callerVars, meter, storeVars, scanned, serviceVars>>

\* lines 299-345
ShellCmd ==
  /\ TopLevel /\ ~APP_RUN_RE(Cur) /\ ~SESSION_START_RE(Cur) /\ SHELL_CMD_RE(Cur)
  /\ LET command == CommandOf(Cur)
         phase == PhaseOf(command)
         scan == ShellOutputLoop(lines, i + 1, <<>>)
         flushed == flushThinking(events, thinkingBuffer)
     IN /\ events' = Append(flushed,
                            [Event(IF phase # NONE THEN "phase_marker" ELSE "shell_cmd") EXCEPT
                               !.command = command, !.phase = phase,
                               !.content = WithOutput(<<"$", WS>> \o command, scan.outputLines)])
        /\ origin' = [events |-> Append(Flushed(flushed), i), buffer |-> -1,
                   iterations |-> origin.iterations + 1, targets |-> origin.targets]
        /\ i' = scan.j
  /\ thinkingBuffer' = <<>>
  /\ UNCHANGED <<lines, pc, callerVars, meter, storeVars, scanned, serviceVars>>

\* lines 348-433
ToolCall ==
  /\ TopLevel /\ ~APP_RUN_RE(Cur) /\ ~SESSION_START_RE(Cur) /\ ~SHELL_CMD_RE(Cur)
  /\ TOOL_HEADER_RE(Cur)
  /\ LET tool == ToolOf(Cur)
         collected == ParamLoop(lines, i + 1, <<>>)
         scan == ToolOutputLoop(lines, collected.j, tool, <<>>)
         flushed == flushThinking(events, thinkingBuffer)
     IN /\ events' = Append(flushed,
                            [Event("tool_call") EXCEPT
                               !.tool = tool, !.extension = ExtensionOf(Cur),
                               !.params = collected.params, !.result = scan.toolResult,
                               !.content = WithOutput(ToolSummary(tool, collected.params),
                                                      scan.outputLines)])
        /\ origin' = [events |-> Append(Flushed(flushed), i), buffer |-> -1,
                   iterations |-> origin.iterations + 1, targets |-> origin.targets]
        /\ i' = scan.j
  /\ thinkingBuffer' = <<>>
  /\ UNCHANGED <<lines, pc, callerVars, meter, storeVars, scanned, serviceVars>>

\* lines 436-437
\* the same with every free text line flushed as a block of its own
ThinkingLineByLine ==
  /\ TopLevel /\ ~IsStructural(Cur)
  /\ LET flushed == flushThinking(events, <<Cur>>)
     IN /\ events' = flushed
        /\ origin' = [origin EXCEPT
                        !.events = IF Len(flushed) > Len(events) THEN Append(@, i) ELSE @,
                        !.iterations = @ + 1]
  /\ thinkingBuffer' = <<>>
  /\ i' = i + 1
  /\ UNCHANGED <<lines, pc, callerVars, meter, storeVars, scanned, serviceVars>>

Thinking ==
  /\ TopLevel /\ ~IsStructural(Cur)
  /\ thinkingBuffer' = Append(thinkingBuffer, Cur)
  /\ origin' = [origin EXCEPT !.buffer = IF thinkingBuffer = <<>> THEN i ELSE @,
                               !.iterations = @ + 1]
  /\ i' = i + 1
  /\ UNCHANGED <<lines, events, pc, callerVars, meter, storeVars, scanned, serviceVars>>

\* lines 440-471: the last flush and the progress post-pass
Finish ==
  /\ pc = "loop" /\ i >= Len(lines)
  /\ LET flushed == flushThinking(events, thinkingBuffer)
     IN /\ events' = AssignProgress(flushed)
        /\ origin' = [events |-> Flushed(flushed), buffer |-> -1,
                   iterations |-> origin.iterations, targets |-> origin.targets]
  /\ thinkingBuffer' = <<>>
  /\ pc' = "done"
  /\ UNCHANGED <<lines, i, callerVars, meter, storeVars, scanned, serviceVars>>

Next ==
  \/ NoiseSkip \/ OrphanBlock \/ AppRun \/ SessionStart \/ ShellCmd \/ ToolCall \/ Thinking
  \/ Finish

Spec == Init /\ [][Next]_vars

(***************************************************************************)
(* The caller: parseRunLog called a second time on the same string, and    *)
(* getEventStats called twice on a list of events.                         *)
(***************************************************************************)
CallerInputs ==
  {Flatten(ss) : ss \in SeqsUpTo(SoupSegments, MaxSegments - 1)}
    \cup BatchInputs \cup ManyLineInputs \cup EventInputs

InitCaller ==
  /\ lines \in CallerInputs
  /\ Enter
  /\ NoCaller
  /\ meter = Meter(0)
  /\ NoStore
  /\ scanned = Scan(0)
  /\ NoService

\* the same with the events kept in a variable of the module
CallAgainKeepingEvents ==
  /\ pc = "done" /\ ~earlier.called /\ stats.calls = 0
  /\ earlier' = [called |-> TRUE, events |-> events]
  /\ i' = 0
  /\ thinkingBuffer' = <<>>
  /\ pc' = "loop"
  /\ origin' = NoOrigin
  /\ UNCHANGED <<lines, events, stats, meter, storeVars, scanned, serviceVars>>

\* a second call: every local is made anew (lines 203-206); the patterns of
\* lines 54-73 have no g or y flag, so test and exec leave nothing in them
CallAgain ==
  /\ pc = "done" /\ ~earlier.called /\ stats.calls = 0
  /\ earlier' = [called |-> TRUE, events |-> events]
  /\ i' = 0
  /\ events' = <<>>
  /\ thinkingBuffer' = <<>>
  /\ pc' = "loop"
  /\ origin' = NoOrigin
  /\ UNCHANGED <<lines, stats, meter, storeVars, scanned, serviceVars>>

\* a list a caller built: the returned events, the first tool call without
\* its optional tool name
WithoutToolName(evs) ==
  LET calls == {k \in 1..Len(evs) : evs[k].type = "tool_call"}
  IN IF calls = {} THEN evs
     ELSE [evs EXCEPT ![CHOOSE k \in calls : \A m \in calls : k <= m].tool = NONE]

MaxCalls == 2

\* getEventStats on the returned list or on the caller's list, and again on
\* the same list; it reads the events and writes none of them
GetEventStats ==
  /\ pc = "done" /\ stats.calls < MaxCalls
  /\ \E list \in (IF stats.calls = 0 THEN {events, WithoutToolName(events)} ELSE {stats.of}) :
       stats' = [calls |-> stats.calls + 1, of |-> list, value |-> getEventStats(list),
                 previous |-> stats.value]
  /\ UNCHANGED <<lines, i, events, thinkingBuffer, pc, origin, earlier, meter, storeVars, scanned, serviceVars>>

NextCaller == Next \/ CallAgain \/ GetEventStats

SpecCaller == InitCaller /\ [][NextCaller]_vars

(***************************************************************************)
(* The progress loop on its own, for any number of significant events.     *)
(***************************************************************************)
MaxSignificant == 1001

Idle ==
  /\ lines = <<BlankLine>>
  /\ i = 0
  /\ events = <<>>
  /\ thinkingBuffer = <<>>
  /\ origin = NoOrigin
  /\ NoCaller

InitProgress ==
  /\ Idle
  /\ pc = "progress"
  /\ meter \in {Meter(n) : n \in 1..MaxSignificant}
  /\ NoStore
  /\ scanned = Scan(0)
  /\ NoService

\* one turn of the loop for a significant event (lines 456-461)
AssignSignificant ==
  /\ pc = "progress"
  /\ meter.significantIndex < meter.totalSignificant
  /\ \E value \in ProgressValues(meter.significantIndex, meter.totalSignificant) :
       meter' = [meter EXCEPT !.previous = meter.progressPercent,
                              !.progressPercent = value,
                              !.significantIndex = meter.significantIndex + 1]
  /\ UNCHANGED <<lines, i, events, thinkingBuffer, pc, origin, callerVars, storeVars, scanned, serviceVars>>

NextProgress == AssignSignificant

SpecProgress == InitProgress /\ [][NextProgress]_vars

(***************************************************************************)
(* Startup (index.ts, main): the store recovers the runs a restart         *)
(* interrupted and main puts each of them on the run queue.                *)
(***************************************************************************)
InitStore ==
  /\ Idle
  /\ pc = "boot"
  /\ meter = Meter(0)
  /\ runs \in StoreFiles
  /\ recovered = <<>>
  /\ queue = <<>>
  /\ scanned = Scan(0)
  /\ NoService

\* index.ts 19-21: store.recoverInProgressRuns(reason)
Recover ==
  /\ pc = "boot"
  /\ LET result == recoverInProgressRuns(runs, RecoveryReason)
     IN /\ runs' = result.runs
        /\ recovered' = result.recovered
  /\ pc' = "recovered"
  /\ UNCHANGED <<lines, i, events, thinkingBuffer, origin, callerVars, meter, queue, scanned, serviceVars>>

\* the same adding the first recovered run only
RECURSIVE RequeueFirstOnly(_, _)
RequeueFirstOnly(added, recoveredRuns) ==
  IF recoveredRuns = <<>> THEN added ELSE Append(added, recoveredRuns[1].id)

\* index.ts 42-47 with requeueExistingRun (run-manager.ts 98-102): queue.add
\* for every recovered run
RECURSIVE RequeueLoop(_, _)
RequeueLoop(added, recoveredRuns) ==
  IF recoveredRuns = <<>> THEN added
  ELSE RequeueLoop(Append(added, recoveredRuns[1].id), Tail(recoveredRuns))

Requeue ==
  /\ pc = "recovered"
  /\ queue' = RequeueLoop(queue, recovered)
  /\ pc' = "serving"
  /\ UNCHANGED <<lines, i, events, thinkingBuffer, origin, callerVars, meter, runs, recovered, scanned, serviceVars>>

NextStore == Recover \/ Requeue

SpecStore == InitStore /\ [][NextStore]_vars

(***************************************************************************)
(* The two block scans called on their own, on an opening line followed by *)
(* up to MaxScanLines lines and from every start index.                    *)
(***************************************************************************)
MaxScanLines == 3

\* `text: "a {",`, `text: "say \"{\" now",`, `path: "C:\\" }`, `} {`, `}}`
QuotedBraceLine == <<WS, "text", ":", WS, QUOTE, "a", WS, LBRACE, QUOTE, ",">>
EscapedQuoteLine ==
  <<WS, "text", ":", WS, QUOTE, "say", WS, BSLASH, QUOTE, LBRACE, BSLASH, QUOTE, WS, "now",
    QUOTE, ",">>
EscapedBackslashLine == <<WS, "path", ":", WS, QUOTE, "C:", BSLASH, BSLASH, QUOTE, WS, RBRACE>>
ReopenLine == <<RBRACE, WS, LBRACE>>
DoubleCloseLine == <<RBRACE, RBRACE>>

ScanLines ==
  {OpenLine, RawTextLine, InnerCloseLine, CloseLine, SearchHeader, ThinkLine, QuotedBraceLine,
   EscapedQuoteLine, EscapedBackslashLine, ReopenLine, DoubleCloseLine}

\* search responses of 0 to MaxResults entries, the second with a content of
\* more than 150 characters; with no count field or one from 0 to 4, with and
\* without the mode and the tokens used
MaxResults == 4
LongContent ==
  "Correction: use flex instead of grid for the header layout; use flex instead of grid for the header layout; use flex instead of grid for the header layout;"
Contents == <<"Previous SEO work", LongContent, "Older note", "Fourth note", "Fifth note">>
Scores == <<"0.9", "0.85", "0.875", "1", "0">>
RECURSIVE Entries(_)
Entries(n) ==
  IF n = 0 THEN <<>>
  ELSE IF n = 1 THEN Entry(Contents[1], Scores[1])
  ELSE Entries(n - 1) \o <<",">> \o Entry(Contents[n], Scores[n])
SearchPayload(n, count, mode, tokens) ==
  <<LBRACE>> \o JStr("results") \o <<":", "[">> \o Entries(n) \o <<"]">>
    \o (IF count # "" THEN <<",">> \o JStr("count") \o <<":", count>> ELSE <<>>)
    \o (IF mode THEN <<",">> \o JStr("mode") \o <<":">> \o JStr("hybrid") ELSE <<>>)
    \o (IF tokens THEN <<",">> \o JStr("tokens_used") \o <<":", "1200">> ELSE <<>>)
    \o <<RBRACE>>
SearchBlocks ==
  {Block(SearchPayload(n, count, mode, tokens)) :
     n \in 0..MaxResults, count \in {"", "0", "1", "2", "3", "4"}, mode \in BOOLEAN,
     tokens \in BOOLEAN}

ScanInputs ==
  {<<OpenLine>>} \cup {<<OpenLine>> \o ls : ls \in SeqsUpTo(ScanLines, MaxScanLines)}
    \cup SearchBlocks

InitScan ==
  /\ lines \in ScanInputs
  /\ i = 0
  /\ events = <<>>
  /\ thinkingBuffer = <<>>
  /\ origin = NoOrigin
  /\ NoCaller
  /\ pc = "scan"
  /\ meter = Meter(0)
  /\ NoStore
  /\ \E startIndex \in 0..Len(lines) : scanned = Scan(startIndex)
  /\ NoService

\* skipAnnotatedBlock(lines, startIndex) (lines 81-108)
SkipBlock ==
  /\ pc = "scan"
  /\ "skip" \notin scanned.called
  /\ scanned' = [scanned EXCEPT !.called = @ \cup {"skip"},
                                !.skipped = skipAnnotatedBlock(lines, scanned.startIndex)]
  /\ UNCHANGED <<lines, i, events, thinkingBuffer, pc, origin, callerVars, meter, storeVars, serviceVars>>

\* extractAnnotatedResult(lines, startIndex) (lines 117-180)
ExtractBlock ==
  /\ pc = "scan"
  /\ "extract" \notin scanned.called
  /\ scanned' = [scanned EXCEPT
                   !.called = @ \cup {"extract"},
                   !.extracted = extractAnnotatedResult(lines, scanned.startIndex),
                   !.collected = ExtractLoop(lines, scanned.startIndex + 1, 1, <<>>).collected]
  /\ UNCHANGED <<lines, i, events, thinkingBuffer, pc, origin, callerVars, meter, storeVars, serviceVars>>

NextScan == SkipBlock \/ ExtractBlock

SpecScan == InitScan /\ [][NextScan]_vars

(***************************************************************************)
(* parseRunLog on logs of up to MaxFlushLines lines that fill the          *)
(* reasoning buffer with free text, leaked block lines and block debris,   *)
(* between the lines that flush it.                                        *)
(***************************************************************************)
MaxFlushLines == 3

\* `, and more`, `"quoted" text`, `'single' text`, ` text: "SUMMARY",`
CommaLine == <<",", WS, "and more">>
QuoteLine == <<QUOTE, "quoted", QUOTE, WS, "text">>
SingleQuoteLine == <<"'", "single", "'", WS, "text">>
FlushLines ==
  {ThinkLine, MetaNoneLine, RawLine, ParenCloseLine, CloseLine, TextLine(PlainText), CommaLine,
   QuoteLine, SingleQuoteLine, LsLine, SearchHeader, SessionLine, AppRunLine, OpenLine,
   BlankLine}
FlushInputs == SeqsUpTo(FlushLines, MaxFlushLines)

InitFlush ==
  /\ lines \in FlushInputs
  /\ Enter
  /\ NoCaller
  /\ meter = Meter(0)
  /\ NoStore
  /\ scanned = Scan(0)
  /\ NoService

SpecFlush == InitFlush /\ [][Next]_vars

(***************************************************************************)
(* RunStore mutations (store.ts 28-72, 137-244) under withLock (280-293).  *)
(* runStore holds the content of the state file, the content it had at     *)
(* first, the promise in this.lock (0 is the promise resolved at           *)
(* construction, c the promise made by call c), the promises resolved so   *)
(* far, and for every call made: the mutation, the promise it waits for,   *)
(* its place, between its read and its write the state it is about to     *)
(* write, and the message of the error it threw.                           *)
(***************************************************************************)
\* { ...current, ...update }
Merge(current, update) ==
  [f \in DOMAIN current \cup DOMAIN update |->
     IF f \in DOMAIN update THEN update[f] ELSE current[f]]

\* state.runs.findIndex((run) => run.id === id), counted from 1; 0 for -1
FindIndex(stateRuns, id) ==
  LET hits == {k \in 1..Len(stateRuns) : stateRuns[k].id = id}
  IN IF hits = {} THEN 0 ELSE CHOOSE k \in hits : \A m \in hits : k <= m

\* the record of lines 49-66
NewRun(id, input, rootRunId, chainIndex) ==
  [id |-> id, task |-> input.task, status |-> "queued", phase |-> "queued",
   startedAt |-> NONE, finishedAt |-> NONE, error |-> NONE,
   parentRunId |-> input.parentRunId, rootRunId |-> rootRunId, chainIndex |-> chainIndex,
   feedback |-> NONE]

\* what a mutation does between readState and writeState: the runs to write,
\* whether it writes, the message of the error it throws
Outcome(stateRuns, writes, error) == [runs |-> stateRuns, writes |-> writes, error |-> error]

\* lines 34-70
createRun(stateRuns, id, input) ==
  LET parentIndex == IF input.parentRunId # NONE THEN FindIndex(stateRuns, input.parentRunId)
                     ELSE 0
      parent == stateRuns[parentIndex]
      rootRunId == IF parentIndex = 0 THEN NONE
                   ELSE IF parent.rootRunId # NONE THEN parent.rootRunId ELSE parent.id
      chainIndex == IF parentIndex = 0 THEN 0 ELSE parent.chainIndex + 1
  IN Outcome(Append(stateRuns, NewRun(id, input, rootRunId, chainIndex)), TRUE, NONE)

\* the same writing the state whether or not the run is stored
updateRunOrIgnore(stateRuns, id, update) ==
  LET index == FindIndex(stateRuns, id)
  IN IF index = 0 THEN Outcome(stateRuns, TRUE, NONE)
     ELSE Outcome([stateRuns EXCEPT ![index] = Merge(@, update)], TRUE, NONE)

\* lines 166-180
updateRun(stateRuns, id, update) ==
  LET index == FindIndex(stateRuns, id)
  IN IF index = 0 THEN Outcome(stateRuns, FALSE, "Run not found: " \o id)
     ELSE Outcome([stateRuns EXCEPT ![index] = Merge(@, update)], TRUE, NONE)

\* line 138
saveFeedback(stateRuns, id, feedback) == updateRun(stateRuns, id, [feedback |-> feedback])

\* lines 186-210
failInProgressRuns(stateRuns, reason) ==
  LET failed == [k \in 1..Len(stateRuns) |->
                   IF InProgress(stateRuns[k])
                   THEN [stateRuns[k] EXCEPT !.status = "failed", !.phase = "failed",
                                             !.finishedAt = "now", !.error = reason]
                   ELSE stateRuns[k]]
      updatedCount == Cardinality({k \in 1..Len(stateRuns) : InProgress(stateRuns[k])})
  IN Outcome(failed, updatedCount > 0, NONE)

\* the body of the function a call hands to withLock, run on the state read;
\* createRun draws the id of its run (randomUUID, line 35), here from the call
Apply(mutation, stateRuns, id) ==
  CASE mutation.op = "createRun" -> createRun(stateRuns, id, mutation.input)
    [] mutation.op = "updateRun" -> updateRun(stateRuns, mutation.id, mutation.update)
    [] mutation.op = "saveFeedback" -> saveFeedback(stateRuns, mutation.id, mutation.feedback)
    [] mutation.op = "failInProgressRuns" -> failInProgressRuns(stateRuns, mutation.reason)
    [] mutation.op = "recoverInProgressRuns" ->
         LET result == recoverInProgressRuns(stateRuns, mutation.reason)
         IN Outcome(result.runs, Len(result.recovered) > 0, NONE)

\* the calls made on one store
MaxMutations == 3
Mutation(op, id, update, input, feedback, reason) ==
  [op |-> op, id |-> id, update |-> update, input |-> input, feedback |-> feedback,
   reason |-> reason]
NoInput == [task |-> NONE, parentRunId |-> NONE]
NoUpdate == [status |-> "queued"]
Mutations ==
  {Mutation("createRun", NONE, NoUpdate, [task |-> "fix", parentRunId |-> parent], NONE, NONE) :
     parent \in {NONE, RunId(1)}}
    \cup {Mutation("updateRun", id, update, NoInput, NONE, NONE) :
            id \in {RunId(1), "missing"},
            update \in {[status |-> "running", phase |-> "agent", startedAt |-> "t1"],
                        [status |-> "completed", phase |-> "completed", finishedAt |-> "t2"]}}
    \cup {Mutation("saveFeedback", RunId(1), NoUpdate, NoInput, "up", NONE)}
    \cup {Mutation("failInProgressRuns", NONE, NoUpdate, NoInput, NONE, "Process restarted"),
          Mutation("recoverInProgressRuns", NONE, NoUpdate, NoInput, NONE, RecoveryReason)}

\* the id createRun draws in call c: no stored run has it
NewId(c) == RunId(MaxRuns + c)

\* the state file at first: no run, or one queued run
LockFiles == {<<>>, <<NewRun(RunId(1), [task |-> "first", parentRunId |-> NONE], NONE, 0)>>}

InitLock ==
  /\ Idle
  /\ pc = "serving"
  /\ meter = Meter(0)
  /\ NoStore
  /\ scanned = Scan(0)
  /\ \E file \in LockFiles : runStore = [NoRunStore EXCEPT !.file = file, !.initial = file]
  /\ manager = NoManager
  /\ execution = NoExecution

Awaiting(c) == c \in 1..Len(runStore.calls) /\ runStore.calls[c].pc = "awaiting"

\* lines 281-287: the call takes the promise in this.lock, puts its own
\* there and awaits the one it took
WithLock ==
  /\ Len(runStore.calls) < MaxMutations
  /\ \E mutation \in Mutations :
       runStore' = [runStore EXCEPT
                      !.lock = Len(runStore.calls) + 1,
                      !.calls = Append(@, [mutation |-> mutation, previous |-> runStore.lock,
                                           pc |-> "awaiting", state |-> <<>>, error |-> NONE])]
  /\ UNCHANGED <<lines, i, events, thinkingBuffer, pc, origin, callerVars, meter, storeVars,
                 scanned, manager, execution>>

\* the same going on without awaiting the promise taken
ResumeAtOnce ==
  /\ \E c \in 1..Len(runStore.calls) :
       /\ Awaiting(c)
       /\ runStore' = [runStore EXCEPT !.calls[c].pc = "reading"]
  /\ UNCHANGED <<lines, i, events, thinkingBuffer, pc, origin, callerVars, meter, storeVars,
                 scanned, manager, execution>>

\* lines 287-289: the promise awaited is resolved, fn starts and reads
Resume ==
  /\ \E c \in 1..Len(runStore.calls) :
       /\ Awaiting(c)
       /\ runStore.calls[c].previous \in runStore.resolved
       /\ runStore' = [runStore EXCEPT !.calls[c].pc = "reading"]
  /\ UNCHANGED <<lines, i, events, thinkingBuffer, pc, origin, callerVars, meter, storeVars,
                 scanned, manager, execution>>

\* readState returns and the function runs up to writeState, to its return
\* without a write or to its throw; in the last two cases the finally block
\* (line 291) resolves the call's promise
ReadState ==
  /\ \E c \in 1..Len(runStore.calls) :
       /\ runStore.calls[c].pc = "reading"
       /\ LET outcome == Apply(runStore.calls[c].mutation, runStore.file, NewId(c))
          IN runStore' =
               IF outcome.error # NONE
               THEN [runStore EXCEPT !.calls[c].pc = "rejected",
                                     !.calls[c].error = outcome.error,
                                     !.resolved = @ \cup {c}]
               ELSE IF ~outcome.writes
               THEN [runStore EXCEPT !.calls[c].pc = "returned", !.resolved = @ \cup {c}]
               ELSE [runStore EXCEPT !.calls[c].pc = "writing", !.calls[c].state = outcome.runs]
  /\ UNCHANGED <<lines, i, events, thinkingBuffer, pc, origin, callerVars, meter, storeVars,
                 scanned, manager, execution>>

\* writeState returns, the function returns and the finally block resolves
\* the call's promise
WriteState ==
  /\ \E c \in 1..Len(runStore.calls) :
       /\ runStore.calls[c].pc = "writing"
       /\ runStore' = [runStore EXCEPT !.file = runStore.calls[c].state,
                                       !.calls[c].pc = "returned",
                                       !.resolved = @ \cup {c}]
  /\ UNCHANGED <<lines, i, events, thinkingBuffer, pc, origin, callerVars, meter, storeVars,
                 scanned, manager, execution>>

NextLock == WithLock \/ Resume \/ ReadState \/ WriteState

SpecLock == InitLock /\ [][NextLock]_vars

(***************************************************************************)
(* RunManager.processRun (run-manager.ts 264-378) for one run.  manager    *)
(* holds the place of the call, the run as the store holds it, the         *)
(* statuses the call stored so far, whether the heartbeat timer is set,    *)
(* the locals heartbeatTick, currentPhase and statusMessageTs, the message *)
(* of the error caught, and of the executor the phases it still reports    *)
(* and the PR it returns.  A call of the Slack client returns or throws.   *)
(***************************************************************************)
otherVars ==
  <<lines, i, events, thinkingBuffer, pc, origin, callerVars, meter, storeVars, scanned>>

\* the same without the pushing status
mapExecutorPhaseWithoutPushing(phase) ==
  IF phase = "validating" THEN "validating" ELSE "running"

\* store.ts 332-340
mapExecutorPhaseToRunStatus(phase) ==
  IF phase = "validating" THEN "validating"
  ELSE IF phase = "pushing" THEN "pushing"
  ELSE "running"

\* run = await this.store.updateRun(stableRunId, update), the run being stored
StoreUpdate(m, update) ==
  [m EXCEPT !.run = Merge(@, update),
            !.stored = IF "status" \in DOMAIN update THEN Append(@, update.status) ELSE @]

\* upsertRunCard (282-293) when the Slack call returns: the card is updated,
\* or posted and its timestamp kept and stored
upsertRunCard(m) ==
  LET nextTs == IF m.statusMessageTs # NONE THEN m.statusMessageTs ELSE "ts-1"
  IN IF nextTs # m.statusMessageTs
     THEN [StoreUpdate(m, [statusMessageTs |-> nextTs]) EXCEPT !.statusMessageTs = nextTs]
     ELSE m

\* the phases execute reports through onPhase (executor.ts 187, 303, 324,
\* 379, 398, 454): without and with a validation command, with a fix round,
\* with and without DRY_RUN
ExecutorPhases ==
  {<<"cloning", "agent">>,
   <<"cloning", "agent", "pushing">>,
   <<"cloning", "agent", "validating", "pushing">>,
   <<"cloning", "agent", "validating", "agent", "validating">>,
   <<"cloning", "agent", "validating", "agent", "validating", "pushing">>}

\* the heartbeat ticks of one call
MaxTicks == 2

InitManager ==
  /\ Idle
  /\ pc = "serving"
  /\ meter = Meter(0)
  /\ NoStore
  /\ scanned = Scan(0)
  /\ runStore = NoRunStore
  /\ execution = NoExecution
  /\ \E phases \in ExecutorPhases, exists \in BOOLEAN :
       manager = [NoManager EXCEPT
                    !.pc = IF exists THEN "called" ELSE "missing",
                    !.phases = phases,
                    !.prUrl = IF phases[Len(phases)] = "pushing" THEN "pr-url" ELSE NONE]

\* lines 265-268: the run is not stored
NotStored ==
  /\ manager.pc = "missing"
  /\ manager' = [manager EXCEPT !.pc = "returned"]
  /\ UNCHANGED <<otherVars, runStore, execution>>

\* lines 296-304
StoreRunning ==
  /\ manager.pc = "called"
  /\ manager' = [StoreUpdate(manager, [status |-> "running", phase |-> "cloning",
                                       startedAt |-> "now", error |-> NONE])
                   EXCEPT !.pc = "accepted"]
  /\ UNCHANGED <<otherVars, runStore, execution>>

\* lines 305-327: the first card, the timer and the parent context
Accept ==
  /\ manager.pc = "accepted"
  /\ \/ manager' = [upsertRunCard(manager) EXCEPT !.pc = "executing", !.heartbeat = TRUE]
     \/ manager' = [manager EXCEPT !.pc = "catch", !.message = "slack error"]
  /\ UNCHANGED <<otherVars, runStore, execution>>

\* lines 306-312: a tick of the timer; an error of the card is logged
HeartbeatTick ==
  /\ manager.heartbeat
  /\ manager.heartbeatTick < MaxTicks
  /\ \/ manager' = [upsertRunCard(manager) EXCEPT !.heartbeatTick = @ + 1]
     \/ manager' = [manager EXCEPT !.heartbeatTick = @ + 1]
  /\ UNCHANGED <<otherVars, runStore, execution>>

\* lines 328-334: the executor reports a phase; an error of the card makes
\* execute throw
OnPhase ==
  /\ manager.pc = "executing"
  /\ manager.phases # <<>>
  /\ LET phase == Head(manager.phases)
         updated == [StoreUpdate(manager, [status |-> mapExecutorPhaseToRunStatus(phase),
                                           phase |-> phase])
                       EXCEPT !.currentPhase = phase, !.phases = Tail(@)]
     IN \/ manager' = upsertRunCard(updated)
        \/ manager' = [updated EXCEPT !.pc = "catch", !.message = "slack error"]
  /\ UNCHANGED <<otherVars, runStore, execution>>

\* execute throws
ExecuteThrows ==
  /\ manager.pc = "executing"
  /\ manager' = [manager EXCEPT !.pc = "catch", !.message = "command failed"]
  /\ UNCHANGED <<otherVars, runStore, execution>>

\* lines 335-348: execute returns, the timer is cleared, the completion is
\* stored
StoreCompleted ==
  /\ manager.pc = "executing"
  /\ manager.phases = <<>>
  /\ manager' = [StoreUpdate([manager EXCEPT !.heartbeat = FALSE],
                             [status |-> "completed", phase |-> "completed",
                              finishedAt |-> "now", prUrl |-> manager.prUrl, error |-> NONE])
                   EXCEPT !.pc = "completed", !.currentPhase = "completed"]
  /\ UNCHANGED <<otherVars, runStore, execution>>

\* lines 350-360: the last card, the log line and the hook, inside the try
CompletedCard ==
  /\ manager.pc = "completed"
  /\ \/ manager' = [upsertRunCard(manager) EXCEPT !.pc = "returned"]
     \/ manager' = [manager EXCEPT !.pc = "catch", !.message = "slack error"]
  /\ UNCHANGED <<otherVars, runStore, execution>>

\* lines 361-371
StoreFailed ==
  /\ manager.pc = "catch"
  /\ manager' = [StoreUpdate([manager EXCEPT !.heartbeat = FALSE],
                             [status |-> "failed", phase |-> "failed", finishedAt |-> "now",
                              error |-> manager.message])
                   EXCEPT !.pc = "failed", !.currentPhase = "failed"]
  /\ UNCHANGED <<otherVars, runStore, execution>>

\* lines 373-376: the card of the failure; its error leaves processRun
FailedCard ==
  /\ manager.pc = "failed"
  /\ \/ manager' = [upsertRunCard(manager) EXCEPT !.pc = "returned"]
     \/ manager' = [manager EXCEPT !.pc = "rejected"]
  /\ UNCHANGED <<otherVars, runStore, execution>>

NextManager ==
  \/ NotStored \/ StoreRunning \/ Accept \/ HeartbeatTick \/ OnPhase \/ ExecuteThrows
  \/ StoreCompleted \/ CompletedCard \/ StoreFailed \/ FailedCard

\* every step is a continuation or a timer callback of the event loop, and
\* the executor call returns or throws
SpecManager == InitManager /\ [][NextManager]_vars /\ WF_vars(NextManager)

(***************************************************************************)
(* RunExecutor.execute from the validation command on (executor.ts         *)
(* 323-400).  execution holds the place of the call, maxValidationRounds,  *)
(* the loop variable attempt, the exit codes of the validation command in  *)
(* the order it ran, the number of agent runs made for fixes and of lint   *)
(* runs, the phases reported and the message of the error thrown.  The     *)
(* validation command exits with code 0 or 1 (the exit code of lint is     *)
(* logged only); onPhase and the agent command return or throw.            *)
(***************************************************************************)
\* config.ts 63-72 and 151: an integer of at least 1, 2 when not set
MaxRounds == 4
RoundSettings == 1..MaxRounds

\* lines 358-361
ValidationError(maxRounds) ==
  "Validation failed after " \o ToString(maxRounds) \o " retry round(s)."

\* the same throwing only past the last round
AfterValidationOneMore(code, attempt, maxRounds) ==
  IF code = 0 THEN "commit"
  ELSE IF attempt > maxRounds THEN "threw"
  ELSE "fix"

\* lines 353-362: where the loop body goes after the validation command
AfterValidation(code, attempt, maxRounds) ==
  IF code = 0 THEN "commit"
  ELSE IF attempt >= maxRounds THEN "threw"
  ELSE "fix"

InitExecutor ==
  /\ Idle
  /\ pc = "serving"
  /\ meter = Meter(0)
  /\ NoStore
  /\ scanned = Scan(0)
  /\ runStore = NoRunStore
  /\ manager = NoManager
  /\ \E maxRounds \in RoundSettings, lintFixCommand \in BOOLEAN :
       execution = [NoExecution EXCEPT !.pc = "agent done", !.maxValidationRounds = maxRounds,
                                       !.lintFixCommand = lintFixCommand]

\* lines 323-342: the validation phase is reported, lint is fixed (its exit
\* code is logged only), the loop starts
StartValidation ==
  /\ execution.pc = "agent done"
  /\ \/ execution' = [execution EXCEPT !.pc = "validate", !.attempt = 0,
                                       !.phases = Append(@, "validating"),
                                       !.lintRuns = IF execution.lintFixCommand THEN 1 ELSE 0]
     \/ execution' = [execution EXCEPT !.pc = "threw", !.error = "phase callback failed"]
  /\ UNCHANGED <<otherVars, runStore, manager>>

\* lines 348-362: the loop test and the validation command
Validate ==
  /\ execution.pc = "validate"
  /\ IF execution.attempt <= execution.maxValidationRounds
     THEN \E code \in {0, 1} :
            LET next == AfterValidation(code, execution.attempt, execution.maxValidationRounds)
            IN execution' =
                 [execution EXCEPT
                    !.validations = Append(@, code),
                    !.pc = next,
                    !.error = IF next = "threw"
                              THEN ValidationError(execution.maxValidationRounds) ELSE @]
     ELSE execution' = [execution EXCEPT !.pc = "commit"]
  /\ UNCHANGED <<otherVars, runStore, manager>>

\* lines 364-398: the fix prompt, the agent phase, the agent command, lint,
\* the validation phase and attempt++
FixRound ==
  /\ execution.pc = "fix"
  /\ \/ execution' = [execution EXCEPT !.pc = "threw", !.error = "phase callback failed"]
     \/ execution' = [execution EXCEPT !.pc = "threw", !.error = "command failed",
                                       !.phases = Append(@, "agent"),
                                       !.agentRuns = @ + 1]
     \/ execution' = [execution EXCEPT !.pc = "threw", !.error = "phase callback failed",
                                       !.phases = Append(@, "agent"),
                                       !.agentRuns = @ + 1,
                                       !.lintRuns = IF execution.lintFixCommand THEN @ + 1 ELSE @]
     \/ execution' = [execution EXCEPT !.pc = "validate",
                                       !.phases = Append(Append(@, "agent"), "validating"),
                                       !.agentRuns = @ + 1,
                                       !.lintRuns = IF execution.lintFixCommand THEN @ + 1 ELSE @,
                                       !.attempt = @ + 1]
  /\ UNCHANGED <<otherVars, runStore, manager>>

\* line 402: the steps of the commit start
Commit ==
  /\ execution.pc = "commit"
  /\ execution' = [execution EXCEPT !.pc = "committing"]
  /\ UNCHANGED <<otherVars, runStore, manager>>

NextExecutor == StartValidation \/ Validate \/ FixRound \/ Commit

SpecExecutor == InitExecutor /\ [][NextExecutor]_vars

(***************************************************************************)
(* Properties.                                                             *)
(***************************************************************************)
Done == pc = "done"

ContentLines(e) == SplitOn(e.content, NL)

\* text.includes(part)
Contains(text, part) ==
  \E k \in 0..(Len(text) - Len(part)) : SubSeq(text, k + 1, k + Len(part)) = part

IsToolCall(e) == e.type = "tool_call"
ToolCalls == SelectSeq(events, IsToolCall)
SignificantEvents == SelectSeq(events, Significant)

\* the summary the extractor gives for a block with this payload
SummaryOf(payload) == extractAnnotatedResult(Block(payload), 0).summary

\* C1: in a batch of n calls followed by n result blocks, the k-th call gets
\* the summary of the k-th block.
C1_BatchResultsInCallOrder ==
  Done =>
    \A n \in 2..MaxBatch, ps \in [1..MaxBatch -> BatchPayloads] :
      lines = BatchInput(n, ps) =>
        /\ Len(ToolCalls) = n
        /\ \A k \in 1..n :
             /\ ToolCalls[k].tool = "memory_search"
             /\ ParamOf(ToolCalls[k].params, "query") = <<Queries[k]>>
             /\ ToolCalls[k].result = SummaryOf(ps[k])

\* C2: a tool call of a tool outside the whitelist never has a result.
C2_WhitelistIsolation ==
  \A k \in 1..Len(events) :
    events[k].type = "tool_call" /\ events[k].tool \notin RESULT_CAPTURE_TOOLS
      => events[k].result = <<>>

\* a call outside the whitelist met its block inline, and a second block
\* followed as an orphan
C2_Witness ==
  /\ Done
  /\ lines = <<ShellHeader>> \o Block(OneResult) \o Block(OneResult)
  /\ Len(events) = 1 /\ events[1].tool = "shell"

InRange(e) == e.progressPercent \in 0..1000

\* C3 as stated: progressPercent is non-decreasing over the whole event list
\* and lies in 0..100.
C3_FullSequenceMonotone ==
  Done =>
    /\ \A k \in 1..Len(events) : InRange(events[k])
    /\ \A k \in 1..(Len(events) - 1) :
         events[k].progressPercent <= events[k + 1].progressPercent

\* C3 amended: every progressPercent lies in 0..100; over the significant
\* events it is non-decreasing; info and shell_cmd events carry 0 wherever
\* they stand.
C3_RangeAndSignificantMonotone ==
  Done =>
    /\ \A k \in 1..Len(events) : InRange(events[k])
    /\ \A j, k \in 1..Len(events) :
         j < k /\ Significant(events[j]) /\ Significant(events[k])
           => events[j].progressPercent <= events[k].progressPercent
    /\ \A k \in 1..Len(events) :
         events[k].type \in {"info", "shell_cmd"} => events[k].progressPercent = 0

\* a significant event at 100 followed by a shell command at 0 and a phase
\* marker
C3_Witness ==
  /\ Done
  /\ \E j, k, m \in 1..Len(events) :
       /\ j < k /\ Significant(events[j]) /\ events[k].type = "shell_cmd"
       /\ events[j].progressPercent > events[k].progressPercent
       /\ events[m].type = "phase_marker"

\* C4: over the significant events progressPercent is non-decreasing and the
\* last of them has exactly 100.
C4_SignificantEndsAtHundred ==
  Done =>
    LET S == SignificantEvents
    IN /\ \A k \in 1..(Len(S) - 1) : S[k].progressPercent <= S[k + 1].progressPercent
       /\ S # <<>> => S[Len(S)].progressPercent = 1000

\* three or more significant events with another event among them
C4_Witness ==
  /\ Done
  /\ Len(SignificantEvents) >= 3
  /\ \E k \in 2..(Len(events) - 1) : ~Significant(events[k])

\* C5 as stated: for every count of significant events, each value assigned
\* is strictly greater than the one before it.
C5_StrictlyIncreasing ==
  meter.significantIndex >= 2 => meter.progressPercent > meter.previous

\* C5 amended: the same for every count up to 1000.
C5_StrictUpToScale ==
  meter.totalSignificant <= Scale /\ meter.significantIndex >= 2
    => meter.progressPercent > meter.previous

\* the loop has run to the end over 1000 significant events
C5_Witness ==
  /\ meter.totalSignificant = Scale
  /\ meter.significantIndex = meter.totalSignificant
  /\ meter.progressPercent = 1000

\* what Scenario B expects of the events
ScenarioBHolds ==
  /\ Len(ToolCalls) = 1
  /\ ToolCalls[1].tool = "memory_search"
  /\ HasParam(ToolCalls[1].params, "query")
  /\ Contains(ToolCalls[1].result, <<"1", WS, "result">>)
  /\ Contains(ToolCalls[1].result, <<"Previous SEO work">>)

\* C6 as stated: header, parameter line, output lines and the result block,
\* written on one line as Scenario B writes it or one field per line.
C6_ScenarioB ==
  Done /\ lines \in OneLineInputs \cup ManyLineInputs => ScenarioBHolds

\* C6 amended: the same when the block is printed one field per line.
C6_ScenarioBManyLines ==
  Done /\ lines \in ManyLineInputs => ScenarioBHolds

C6_Witness ==
  /\ Done
  /\ lines = InlineInput(MaxOutput, Block(OneResult))
  /\ Contains(ToolCalls[1].content, OutputLines(MaxOutput)[MaxOutput])

\* C7: with braces inside the quoted text, the scan ends just past the
\* closing line of the block, no line of the block reaches an event, and the
\* text after the block is an agent_thinking event of its own.
C7_BracesInsideQuotes ==
  Done =>
    \A pre \in BracePrefixes, css \in CssPayloads :
      lines = BraceInput(pre, css) =>
        LET open == Len(pre)
            BlockLength == Len(Block(css))
        IN /\ skipAnnotatedBlock(lines, open) = open + BlockLength
           /\ extractAnnotatedResult(lines, open).endIndex = open + BlockLength
           /\ Len(events) = (IF pre = <<>> THEN 1 ELSE 2)
           /\ events[Len(events)].type = "agent_thinking"
           /\ events[Len(events)].content = ThinkLine
           /\ \A k \in 1..Len(events), b \in 1..BlockLength :
                ~Contains(events[k].content, Block(css)[b])

\* a block whose quoted text opens a brace it never closes
C7_Witness ==
  /\ Done
  /\ lines = BraceInput(<<AnalyzeHeader, PathLine, BlankLine>>, CssOpen)
  /\ Len(events) = 2 /\ events[1].tool = "analyze"

\* C8: no content holds a line that the noise filter recognizes.
C8_NoNoiseInContent ==
  \A k \in 1..Len(events) :
    \A n \in 1..Len(ContentLines(events[k])) : ~isNoiseLine(ContentLines(events[k])[n])

\* C9: no content holds a line that matches the leak patterns.
C9_NoLeakInContent ==
  \A k \in 1..Len(events) :
    \A n \in 1..Len(ContentLines(events[k])) : ~ANNOTATED_LEAK_RE(ContentLines(events[k])[n])

\* every line is one of the noise lines: blank, whitespace, one of the banners
\* or the command-not-found echo
AllNoise == \A k \in 1..Len(lines) : lines[k] \in NoiseLines

\* C10: a log of noise lines only (the empty string and blank lines among
\* them) parses to no event.
C10_NoiseOnlyIsEmpty == Done /\ AllNoise => events = <<>>

\* several noise lines, one of them the banner met in the middle of a line
C10_Witness ==
  /\ Done /\ AllNoise
  /\ Len(lines) >= 2
  /\ \E k \in 1..Len(lines) : lines[k] = CacheLine
  /\ events = <<>>

\* the line that started an event, by the event's type: a run header, a
\* session line, a command line with the event's command, a tool header with
\* the event's tool, or the free text line that opened a reasoning block
StartedBy(e, line) ==
  CASE e.type = "info" -> APP_RUN_RE(line) /\ e.content = line
    [] e.type = "session_start" ->
         SESSION_START_RE(line) /\ ~APP_RUN_RE(line) /\ e.provider = ProviderOf(line)
    [] e.type \in {"shell_cmd", "phase_marker"} ->
         SHELL_CMD_RE(line) /\ e.command = CommandOf(line)
    [] e.type = "tool_call" -> TOOL_HEADER_RE(line) /\ e.tool = ToolOf(line)
    [] e.type = "agent_thinking" ->
         ~IsStructural(line) /\ ~isNoiseLine(line) /\ ~ANNOTATED_START_RE(line)
    [] OTHER -> FALSE

\* origin.events[k] is the index of the line that started events[k]
OriginsInLineOrder ==
  /\ Len(origin.events) = Len(events)
  /\ \A k \in 1..Len(events) :
       /\ origin.events[k] \in 0..(Len(lines) - 1)
       /\ StartedBy(events[k], At(lines, origin.events[k]))
  /\ \A k \in 1..(Len(events) - 1) : origin.events[k] < origin.events[k + 1]

\* C11: at every step of a parse the events are in the order of the lines
\* that started them (each event is tied to its line, the line indices are
\* strictly increasing, so a reasoning block precedes the structural event
\* whose line follows it), and no step, attaching a result to an earlier
\* event included, changes the position or the type of an event already
\* emitted.
C11_EventsInLineOrder ==
  [][/\ OriginsInLineOrder'
     /\ Len(events') >= Len(events)
     /\ \A k \in 1..Len(events) :
          /\ events'[k].type = events[k].type
          /\ origin'.events[k] = origin.events[k]]_vars

\* a finished parse where a result was attached out of order: an event that
\* is not the last one holds a result, and no block opens between its line
\* and the line of the event after it
C11_Witness ==
  /\ Done /\ OriginsInLineOrder
  /\ \E k \in 1..(Len(events) - 1) :
       /\ events[k].result # <<>>
       /\ \A n \in origin.events[k]..origin.events[k + 1] :
            ~ANNOTATED_START_RE(At(lines, n))

\* a finished parse where a reasoning block stands between two structural
\* events, as its lines do
C11_WitnessThinking ==
  /\ Done /\ OriginsInLineOrder
  /\ \E k \in 2..(Len(events) - 1) :
       /\ events[k].type = "agent_thinking"
       /\ events[k - 1].type # "agent_thinking"
       /\ events[k + 1].type # "agent_thinking"

\* a cursor that started at index from and stopped at index to
Advanced(from, to) == from <= to /\ to <= Len(lines)
StrictlyAdvanced(from, to) == from < to /\ to <= Len(lines)

\* every nested scan, started anywhere in the log: the two block scans step
\* over the opening line, the four loops stop at or after their start
ScansAdvance ==
  \A k \in 0..(Len(lines) - 1) :
    /\ StrictlyAdvanced(k, skipAnnotatedBlock(lines, k))
    /\ StrictlyAdvanced(k, extractAnnotatedResult(lines, k).endIndex)
    /\ Advanced(k + 1, SessionMetaLoop(lines, k + 1))
    /\ Advanced(k + 1, ShellOutputLoop(lines, k + 1, <<>>).j)
    /\ Advanced(k + 1, ParamLoop(lines, k + 1, <<>>).j)
    /\ \A tool \in {"memory_search", "shell"} :
         Advanced(k + 1, ToolOutputLoop(lines, k + 1, tool, <<>>).j)

\* C12: the parse cannot run away: the cursor stays within the lines, every
\* iteration of the main loop moves it forward (never leaving it in place,
\* moving it back or putting it past the number of lines), so that the loop
\* makes at most Len(lines) iterations before the list is returned, and every
\* nested scan stops at or after its start and within the lines.
C12_ForwardProgress ==
  /\ [](i \in 0..Len(lines) /\ origin.iterations <= i)
  /\ [][pc = "loop" /\ pc' = "loop" => StrictlyAdvanced(i, i')]_vars
  /\ [](Done => ScansAdvance)

\* a finished parse of a log whose last line opens a block (the scan starts
\* at the number of lines) and that holds a block running to the end of the
\* log without its closing brace
C12_Witness ==
  /\ Done /\ i = Len(lines)
  /\ ANNOTATED_START_RE(At(lines, Len(lines) - 1))
  /\ Len(lines) >= 2
  /\ skipAnnotatedBlock(lines, Len(lines) - 1) = Len(lines)

\* the phases in the order of the claim, each with the phrases that mark it
PhaseOrder == <<"cloning", "agent", "pushing", "committing">>
PhaseMarks ==
  [p \in {"cloning", "agent", "pushing", "committing"} |->
     CASE p = "cloning" -> {"git clone"}
       [] p = "agent" -> {"goose run", "AGENT_COMMAND"}
       [] p = "pushing" -> {"git push"}
       [] p = "committing" -> {"git add", "git commit"}]
\* the places in PhaseOrder of the phases a command holds a phrase of
Recognized(command) ==
  {n \in 1..Len(PhaseOrder) :
     \E k \in 1..Len(command) : command[k] \in PhaseMarks[PhaseOrder[n]]}
IsShellEvent(e) == e.type \in {"shell_cmd", "phase_marker"}

\* C13: an event made from a command line carries the first phase, in the
\* order cloning, agent, pushing, committing, that its command holds a phrase
\* of, and is then a phase_marker; with no such phrase it is a shell_cmd
\* with no phase.  A log of one command line gives one such event with the
\* text after the prompt as its command, and no other event has a phase.
C13_PhaseClassification ==
  Done =>
    /\ \A k \in 1..Len(events) :
         LET e == events[k]
             found == Recognized(e.command)
         IN IF IsShellEvent(e)
            THEN IF found = {}
                 THEN e.type = "shell_cmd" /\ e.phase = NONE
                 ELSE /\ e.type = "phase_marker"
                      /\ e.phase = PhaseOrder[CHOOSE n \in found : \A m \in found : n <= m]
            ELSE e.phase = NONE
    /\ lines \in CommandInputs =>
         /\ Len(events) = 1 /\ IsShellEvent(events[1])
         /\ events[1].command = CommandOf(lines[1])

\* a command with the phrases of two phases, the later phase written first
C13_Witness ==
  /\ Done
  /\ lines = <<CommandLine(<<"git commit", "git clone">>)>>
  /\ Len(events) = 1
  /\ events[1].type = "phase_marker" /\ events[1].phase = "cloning"

\* the first index after header line h whose line satisfies Stops, or the
\* number of lines
FirstStop(h, Stops(_)) ==
  LET stops == {j \in (h + 1)..(Len(lines) - 1) : Stops(At(lines, j))}
  IN IF stops = {} THEN Len(lines) ELSE CHOOSE j \in stops : \A m \in stops : j <= m

\* the parameter lines among the lines h+1 .. stop-1
ParamLinesUpTo(h, stop) ==
  {j \in (h + 1)..(stop - 1) : TOOL_PARAM_RE(At(lines, j)) /\ ~isNoiseLine(At(lines, j))}

\* params is what the parameter lines of rows give: their keys, each with the
\* value of the last line that names it
ParamsFrom(params, rows) ==
  /\ {params[n].key : n \in 1..Len(params)} = {ParamKey(At(lines, j)) : j \in rows}
  /\ \A n \in 1..Len(params) :
       \E j \in rows :
         /\ ParamKey(At(lines, j)) = params[n].key
         /\ ParamValue(At(lines, j)) = params[n].value
         /\ \A m \in rows : ParamKey(At(lines, m)) = params[n].key => m <= j

EndsAtNoise(line) == IsStructural(line) \/ isNoiseLine(line) \/ ~TOOL_PARAM_RE(line)
SkipsNoise(line) == ~isNoiseLine(line) /\ ~TOOL_PARAM_RE(line)

\* C14 as claimed: the params of a tool call come from the key: value lines
\* between its header and the first line that is structural, noise or not of
\* key: value shape.
C14_ParamsContiguous ==
  Done =>
    \A k \in 1..Len(events) :
      events[k].type = "tool_call" =>
        ParamsFrom(events[k].params,
                   ParamLinesUpTo(origin.events[k], FirstStop(origin.events[k], EndsAtNoise)))

\* C14 as the code has it: noise lines are stepped over, and the params come
\* from the key: value lines between the header and the first line that is
\* neither noise nor of key: value shape; a key: value line after that line
\* is never added.
C14_ParamsUpToFirstOtherLine ==
  Done =>
    \A k \in 1..Len(events) :
      events[k].type = "tool_call" =>
        ParamsFrom(events[k].params,
                   ParamLinesUpTo(origin.events[k], FirstStop(origin.events[k], SkipsNoise)))

\* a header, a parameter, a blank line, a second parameter: both are kept
C14_Witness ==
  /\ Done
  /\ lines = <<SearchHeader, QueryLine, BlankLine, ProjectLine>>
  /\ Len(events) = 1
  /\ Len(events[1].params) = 2
  /\ events[1].params[2].key = "project"

\* C15 (Scenario A): a log that is one run header line, with or without a
\* line break after it, parses to exactly one event: an info event whose
\* content is that line and whose progressPercent is 0.
C15_ScenarioA ==
  Done /\ lines \in RunHeaderInputs =>
    /\ Len(events) = 1
    /\ events[1].type = "info"
    /\ events[1].content = lines[1]
    /\ events[1].progressPercent = 0

\* the header followed by a line break, its word and id other than the usual
C15_Witness ==
  /\ Done
  /\ lines = <<<<"git", WS, "run", WS, "query">>, BlankLine>>
  /\ Len(events) = 1 /\ events[1].type = "info"

OfTypes(evs, types) == {k \in 1..Len(evs) : evs[k].type \in types}
\* the sum of the values of a function with a finite domain
SumOfCounts(f) ==
  LET sum[S \in SUBSET DOMAIN f] ==
        IF S = {} THEN 0 ELSE LET n == CHOOSE x \in S : TRUE IN f[n] + sum[S \ {n}]
  IN sum[DOMAIN f]

LastValueOf(key) ==
  LET rows == {j \in 2..Len(lines) : ParamKey(lines[j]) = key}
  IN IF rows = {} THEN NONE
     ELSE ParamValue(lines[CHOOSE j \in rows : \A m \in rows : m <= j])

\* the shortened form of each path of the logs, written out: the text after
\* /repo/; .../ and the last three of five segments; three segments left as
\* they are; .../ and the last three of the four segments that a leading
\* slash makes of three names (the first segment is the empty one)
ShortenedPath(path) ==
  CASE path = ParamValue(RepoPathLine) -> <<"src", "/", "app.css">>
    [] path = ParamValue(LongPathLine) -> <<"...", "/", "tmp", "/", "out", "/", "a.txt">>
    [] path = ParamValue(ShortPathLine) -> <<"src", "/", "lib", "/", "a.ts">>
    [] path = ParamValue(RootedPathLine) -> <<"...", "/", "src", "/", "lib", "/", "a.ts">>

\* C18: the first content line of a tool call is the tool and the shortened
\* path when there is a path parameter, else the tool and the command, else
\* the tool and the quoted query, else the tool alone, whatever the order of
\* the parameter lines.
C18_ToolSummaryLine ==
  Done /\ lines \in SummaryInputs =>
    /\ Len(events) = 1 /\ events[1].type = "tool_call"
    /\ ContentLines(events[1])[1] =
         IF LastValueOf("path") # NONE
         THEN <<"shell", ":", WS>> \o ShortenedPath(LastValueOf("path"))
         ELSE IF LastValueOf("command") # NONE
         THEN <<"shell", ":", WS>> \o LastValueOf("command")
         ELSE IF LastValueOf("query") # NONE
         THEN <<"shell", ":", WS, QUOTE>> \o LastValueOf("query") \o <<QUOTE>>
         ELSE <<"shell">>

\* a command written before a path of exactly three segments: the path is
\* shown, and shown as it is
C18_Witness ==
  /\ Done
  /\ lines = <<ShellHeader, CommandParamLine, ShortPathLine>>
  /\ Len(events) = 1
  /\ events[1].content = <<"shell", ":", WS, "src", "/", "lib", "/", "a.ts">>

\* a run that was interrupted: queued, running, validating or pushing
Interrupted(run) == run.status \in RunStatus \ {"completed", "failed"}
\* the run put back: queued again, its times cleared, the reason as its error
PutBack(run, reason) ==
  [id |-> run.id, task |-> run.task, status |-> "queued", phase |-> "queued",
   startedAt |-> NONE, finishedAt |-> NONE, error |-> reason]
\* how often a value occurs in a sequence
Occurrences(seq, x) == Cardinality({n \in 1..Len(seq) : seq[n] = x})

\* C19: the recovery step rewrites every interrupted run of the store (and
\* only those) to queued with phase queued, no start or finish time and the
\* reason as error, and returns exactly the rewritten runs, in store order;
\* the requeue step puts the id of every returned run on the run queue once
\* and nothing else.
C19_RestartRecovery ==
  [][/\ pc = "boot" /\ pc' = "recovered" =>
          /\ Len(runs') = Len(runs)
          /\ \A k \in 1..Len(runs) :
               runs'[k] = IF Interrupted(runs[k]) THEN PutBack(runs[k], RecoveryReason)
                          ELSE runs[k]
          /\ recovered' = SelectSeq(runs', LAMBDA r : \E k \in 1..Len(runs) :
                                                 Interrupted(runs[k]) /\ runs[k].id = r.id)
     /\ pc = "recovered" /\ pc' = "serving" =>
          /\ Len(queue') = Len(recovered)
          /\ \A n \in 1..Len(recovered) : Occurrences(queue', recovered[n].id) = 1]_vars

\* the service started on a store of three runs: the first and the third
\* were interrupted and are on the queue, the failed one is as it was
C19_Witness ==
  /\ pc = "serving"
  /\ Len(runs) = 3 /\ Len(recovered) = 2 /\ Len(queue) = 2
  /\ runs[1].finishedAt = NONE /\ runs[1].error = RecoveryReason
  /\ runs[2].status = "failed" /\ runs[2].error = "boom"
  /\ queue = <<RunId(1), RunId(3)>>

\* the main loop stands on a line that opens a block
AtOrphanBlock == Looping /\ ~isNoiseLine(Cur) /\ ANNOTATED_START_RE(Cur)
\* the emitted tool calls of a memory tool that have no result yet
Unresolved ==
  {k \in 1..Len(events) :
     /\ events[k].type = "tool_call"
     /\ events[k].tool \in {"memory_search", "memory_add", "memory_forget", "memory_update"}
     /\ events[k].result = <<>>}

\* C20: the step taken on a top-level block.  With an unresolved memory tool
\* call, the block is extracted, the cursor goes to its end and a non-empty
\* summary becomes the result of the lowest-indexed such call, every other
\* event and field staying as it was; an empty summary changes nothing.
\* Without one the block is skipped and no event changes.
C20_OrphanedBlockRule ==
  [][AtOrphanBlock =>
       IF Unresolved # {}
       THEN LET target == CHOOSE k \in Unresolved : \A m \in Unresolved : k <= m
                extracted == extractAnnotatedResult(lines, i)
            IN /\ i' = extracted.endIndex
               /\ events' = IF extracted.summary # <<>>
                            THEN [k \in 1..Len(events) |->
                                    IF k = target
                                    THEN [events[k] EXCEPT !.result = extracted.summary]
                                    ELSE events[k]]
                            ELSE events
       ELSE /\ i' = skipAnnotatedBlock(lines, i)
            /\ events' = events]_vars

\* a batch of three calls: the third took the first block inline, the two
\* blocks met at the top level went to the first and the second call
C20_Witness ==
  /\ Done
  /\ lines = BatchInput(3, <<NoResults, OneResult, TwoResults>>)
  /\ Len(events) = 3
  /\ events[1].result = SummaryOf(OneResult)
  /\ events[2].result = SummaryOf(TwoResults)

\* C21: no emitted tool call is the match target of two top-level blocks of
\* one parse.
C21_OneBlockPerCall ==
  \A a, b \in 1..Len(origin.targets) : a # b => origin.targets[a] # origin.targets[b]

\* the depth the scan adds over one line, and the depth after lines
\* startIndex+1..k when the count starts at 1
NetDepth(line) == ScanChars(line, 1, FALSE, 0)
RECURSIVE DepthAfter(_, _, _)
DepthAfter(ls, startIndex, k) ==
  IF k <= startIndex THEN 1 ELSE DepthAfter(ls, startIndex, k - 1) + NetDepth(At(ls, k))

\* the depth is 0 or less after some character of line k; at the end of line k
ClosedWithin(ls, startIndex, k) ==
  \E p \in 1..Len(At(ls, k)) :
    DepthAfter(ls, startIndex, k - 1) + NetDepth(SubSeq(At(ls, k), 1, p)) <= 0
ClosedAtEnd(ls, startIndex, k) == DepthAfter(ls, startIndex, k) <= 0

\* the index after the first closing line, or of a header met before it, or
\* the number of lines
SkipResult(ls, startIndex, Closed(_, _, _)) ==
  LET stops == {k \in (startIndex + 1)..(Len(ls) - 1) :
                  TOOL_HEADER_RE(At(ls, k)) \/ Closed(ls, startIndex, k)}
      first == CHOOSE k \in stops : \A m \in stops : k <= m
  IN IF stops = {} THEN Len(ls)
     ELSE IF TOOL_HEADER_RE(At(ls, first)) THEN first ELSE first + 1

SkippedFromOpening ==
  /\ "skip" \in scanned.called
  /\ scanned.startIndex < Len(lines)
  /\ ANNOTATED_START_RE(At(lines, scanned.startIndex))

\* C22 as stated: skipAnnotatedBlock returns the index after the line on which
\* the depth first reaches 0, the index of a header met before that, or the
\* number of lines, and the result lies in startIndex+1..lines.length.
C22_SkipResult ==
  SkippedFromOpening =>
    /\ scanned.skipped = SkipResult(lines, scanned.startIndex, ClosedWithin)
    /\ scanned.skipped \in (scanned.startIndex + 1)..Len(lines)

\* C22: skipAnnotatedBlock returns the index after the first line at whose end
\* the depth is 0 or less, the index of a header met before that, or the number
\* of lines, and the result lies in startIndex+1..lines.length.
C22_SkipResultAtLineEnd ==
  SkippedFromOpening =>
    /\ scanned.skipped = SkipResult(lines, scanned.startIndex, ClosedAtEnd)
    /\ scanned.skipped \in (scanned.startIndex + 1)..Len(lines)

\* a block skipped over a line that closes it and opens another, ending before
\* the last line
C22_Witness ==
  /\ SkippedFromOpening
  /\ scanned.skipped < Len(lines)
  /\ \E k \in (scanned.startIndex + 1)..(scanned.skipped - 2) : At(lines, k) = ReopenLine

\* a character is escaped when a backslash that is not itself escaped stands
\* right before it: the backslashes that end right before it are odd in number
BackslashRun(line, k) ==
  LET starts == {b \in 1..k : \A m \in b..(k - 1) : line[m] = BSLASH}
  IN k - CHOOSE b \in starts : \A c \in starts : b <= c
Escaped(line, k) == BackslashRun(line, k) % 2 = 1

\* the depth added over a line when every unescaped quote toggles the string
\* flag and braces count outside strings only
QuoteAwareDepth(line) ==
  LET Toggles(k) == line[k] = QUOTE /\ ~Escaped(line, k)
      Quoted(k) == Cardinality({m \in 1..(k - 1) : Toggles(m)}) % 2 = 1
      Counted(ch) == {k \in 1..Len(line) : line[k] = ch /\ ~Quoted(k)}
  IN Cardinality(Counted(LBRACE)) - Cardinality(Counted(RBRACE))

\* C23: on every line a block scan went over, the depth changes as if a quote
\* toggled the string flag unless a backslash that is not itself escaped stands
\* right before it, and braces counted outside quoted strings only.
C23_QuoteAndEscape ==
  "skip" \in scanned.called =>
    \A k \in (scanned.startIndex + 1)..(scanned.skipped - 1) :
      NetDepth(At(lines, k)) = QuoteAwareDepth(At(lines, k))

\* lines a up to but not including b, by 0-based index
LinesBetween(ls, a, b) == SubSeq(ls, a + 1, b)

BothCalled == scanned.called = {"skip", "extract"}

\* C24: for every start index the extractor ends where the skipper ends, and
\* the lines it collects are those after the start index and before that end.
C24_ScanEquivalence ==
  BothCalled =>
    /\ scanned.extracted.endIndex = scanned.skipped
    /\ scanned.collected = LinesBetween(lines, scanned.startIndex + 1, scanned.skipped)

\* both scans stopped by a tool header after at least one collected line
C24_Witness ==
  /\ BothCalled
  /\ scanned.collected # <<>>
  /\ scanned.skipped < Len(lines)
  /\ TOOL_HEADER_RE(At(lines, scanned.skipped))
  /\ ~ClosedAtEnd(lines, scanned.startIndex, scanned.skipped - 1)

\* both scans called with a start index past the last line
C24_WitnessPastEnd ==
  /\ BothCalled
  /\ scanned.startIndex = Len(lines)
  /\ scanned.skipped = Len(lines) + 1

\* the least index from j on that is in S, or the number of lines
FirstFrom(j, S) ==
  LET found == {k \in j..(Len(lines) - 1) : k \in S}
  IN IF found = {} THEN Len(lines) ELSE CHOOSE k \in found : \A m \in found : k <= m

\* for the tool call whose header is line h: the first line after its
\* parameters, the first structural or block-opening line from there on, the
\* non-noise lines between the two, and the first line that is not noise after
\* the block that opens there
OutputStart(h) == ParamLoop(lines, h + 1, <<>>).j
OutputStop(h) ==
  FirstFrom(OutputStart(h),
            {k \in 0..(Len(lines) - 1) :
               IsStructural(At(lines, k)) \/ ANNOTATED_START_RE(At(lines, k))})
BlockReached(h) == OutputStop(h) < Len(lines) /\ ANNOTATED_START_RE(At(lines, OutputStop(h)))
OutputBefore(h) ==
  SelectSeq(LinesBetween(lines, OutputStart(h), OutputStop(h)), LAMBDA l : ~isNoiseLine(l))
AfterBlock(h) ==
  FirstFrom(skipAnnotatedBlock(lines, OutputStop(h)),
            {k \in 0..(Len(lines) - 1) : ~isNoiseLine(At(lines, k))})

\* line k is free text that a flush keeps and that opens the flushed text
FreeText(k) ==
  k < Len(lines) /\ ~IsStructural(At(lines, k)) /\ ~ANNOTATED_START_RE(At(lines, k))
Kept(k) == ~ANNOTATED_LEAK_RE(At(lines, k)) /\ ~IsDebris(Trim(At(lines, k)))

\* a step of the main loop that appends a tool call
ToolCallStep ==
  pc = "loop" /\ pc' = "loop" /\ Len(events') > Len(events)
    /\ events'[Len(events')].type = "tool_call"

EndsAtBlock ==
  LET call == events'[Len(events')]
      block == OutputStop(i)
  IN /\ i' = AfterBlock(i)
     /\ call.result = IF call.tool \in RESULT_CAPTURE_TOOLS
                      THEN extractAnnotatedResult(lines, block).summary ELSE <<>>
     /\ call.content = WithOutput(ToolSummary(call.tool, call.params), OutputBefore(i))
     /\ thinkingBuffer' = <<>>

TextAfterBlockIsThinking ==
  \A k \in 1..Len(events) :
    LET h == origin.events[k]
        after == AfterBlock(h)
        text == Trim(At(lines, after))
    IN (events[k].type = "tool_call" /\ BlockReached(h) /\ FreeText(after) /\ Kept(after)) =>
         /\ k < Len(events)
         /\ events[k + 1].type = "agent_thinking"
         /\ origin.events[k + 1] = after
         /\ Len(events[k + 1].content) >= Len(text)
         /\ SubSeq(events[k + 1].content, 1, Len(text)) = text

C25_WitnessCaptured ==
  /\ Done
  /\ \E k \in 1..Len(events) :
       /\ events[k].type = "tool_call" /\ events[k].tool \in RESULT_CAPTURE_TOOLS
       /\ BlockReached(origin.events[k])
       /\ OutputBefore(origin.events[k]) # <<>>
       /\ events[k].result # <<>>

\* the lines with an index in S from line a up to but not including line b
LinesIn(S, a, b) ==
  LET indices == SelectSeq([k \in 1..(b - a) |-> a + k - 1], LAMBDA k : k \in S)
  IN [m \in 1..Len(indices) |-> At(lines, indices[m])]
NonNoise == {k \in 0..(Len(lines) - 1) : ~isNoiseLine(At(lines, k))}
Structural == {k \in 0..(Len(lines) - 1) : IsStructural(At(lines, k))}
BlockOpening == {k \in 0..(Len(lines) - 1) : ANNOTATED_START_RE(At(lines, k))}

\* the lines of the blocks met from line j on before a structural line outside
\* a block
RECURSIVE BlockLines(_)
BlockLines(j) ==
  IF j >= Len(lines) \/ j \in Structural THEN {}
  ELSE IF j \in BlockOpening
  THEN j..(skipAnnotatedBlock(lines, j) - 1) \cup BlockLines(skipAnnotatedBlock(lines, j))
  ELSE BlockLines(j + 1)

\* a step of the main loop that appends the event of a `$ command` line
ShellCmdStep ==
  pc = "loop" /\ pc' = "loop" /\ Len(events') > Len(events)
    /\ IsShellEvent(events'[Len(events')])

\* C26 as stated: the content of a shell event is its command line and the
\* non-noise lines after it up to the first structural line, block or end.
C26_ShellCaptureEndsAtBlock ==
  [][ShellCmdStep =>
       LET shell == events'[Len(events')]
           stop == FirstFrom(i + 1, Structural \cup BlockOpening)
       IN shell.content = WithOutput(<<"$", WS>> \o shell.command,
                                     LinesIn(NonNoise, i + 1, stop))]_vars

\* C26: the content of a shell event is its command line and the non-noise
\* lines after it up to the first structural line outside a block or the end,
\* without the lines of the blocks met on the way; the step continues at that
\* structural line.
C26_ShellCaptureSkipsBlocks ==
  [][ShellCmdStep =>
       LET shell == events'[Len(events')]
           stop == FirstFrom(i + 1, Structural \ BlockLines(i + 1))
       IN /\ i' = stop
          /\ shell.content = WithOutput(<<"$", WS>> \o shell.command,
                                        LinesIn(NonNoise \ BlockLines(i + 1), i + 1, stop))]_vars

\* a shell event whose content holds a line that stands after a skipped block
C26_Witness ==
  \E k \in 1..Len(events) :
    LET h == origin.events[k]
        stop == FirstFrom(h + 1, Structural \ BlockLines(h + 1))
    IN /\ IsShellEvent(events[k])
       /\ \E b \in BlockLines(h + 1) : \E t \in NonNoise \ BlockLines(h + 1) : b < t /\ t < stop

\* a step that flushes the reasoning buffer: a structural line, or the end of
\* the input
FlushStep ==
  pc = "loop" /\ (pc' = "done" \/ (i < Len(lines) /\ ~isNoiseLine(Cur) /\ IsStructural(Cur)))

\* the text left of the buffer, and whether it opens with one of the given
\* characters or with `text: "`
Remaining ==
  Trim(JoinLines(SelectSeq(thinkingBuffer, LAMBDA l : ~ANNOTATED_LEAK_RE(l))))
OpensWith(text, chars) ==
  \/ text # <<>> /\ text[1] \in chars
  \/ /\ Len(text) >= 3 /\ text[1] = "text" /\ text[2] = ":"
     /\ \E q \in 3..Len(text) : text[q] = QUOTE /\ \A w \in 3..(q - 1) : text[w] = WS

\* the events a flush step adds before the event of the line that flushed
FlushedEvents ==
  LET added == SubSeq(events', Len(events) + 1, Len(events'))
  IN IF pc' = "done" THEN added ELSE SubSeq(added, 1, Len(added) - 1)

FlushRule(chars) ==
  /\ thinkingBuffer' = <<>>
  /\ IF ~OpensWith(Remaining, chars) /\ Remaining # <<>>
     THEN /\ Len(FlushedEvents) = 1
          /\ FlushedEvents[1].type = "agent_thinking"
          /\ FlushedEvents[1].content = Remaining
     ELSE FlushedEvents = <<>>

\* C27 as stated: a flush removes the leaked lines, emits nothing when the
\* trimmed rest opens with a closing delimiter, a quote character or `text: "`,
\* emits one agent_thinking event with the rest when it is not empty otherwise,
\* and leaves the buffer empty; so does the flush at the end of the input.
C27_FlushRule ==
  [][FlushStep => FlushRule({")", RBRACE, "]", QUOTE, "'"})]_vars

\* C27: the same with the comma among the opening characters that discard.
C27_FlushRuleWithComma ==
  [][FlushStep => FlushRule({")", RBRACE, "]", ",", QUOTE, "'"})]_vars

\* a returned parse with an agent_thinking event, that dropped the buffer a
\* comma line opened after a structural line
C27_Witness ==
  /\ Done
  /\ \E e \in 1..Len(events) : events[e].type = "agent_thinking"
  /\ \E k \in 1..(Len(lines) - 1) :
       /\ At(lines, k) = CommaLine
       /\ IsStructural(At(lines, k - 1))
       /\ \A e \in 1..Len(events) : origin.events[e] # k

\* a returned parse whose agent_thinking event holds the text after a leaked
\* line that opened the buffer
C27_WitnessLeak ==
  /\ Done
  /\ \E e \in 1..Len(events) :
       /\ events[e].type = "agent_thinking"
       /\ origin.events[e] < Len(lines) - 1
       /\ ANNOTATED_LEAK_RE(At(lines, origin.events[e]))
       /\ events[e].content = Trim(At(lines, origin.events[e] + 1))

\* the summary of each payload that is not a search response, written out
ExpectedResult(payload) ==
  CASE payload = Stored -> <<"stored">>
    [] payload = StoredFalse -> <<"failed">>
    [] OTHER -> <<>>

\* the payload of the block that opens at line b: the text between the quotes
\* of its text line, or <<>> when the block has no text line
PayloadAt(b) ==
  IF LinesBetween(lines, b, b + Len(NoTextBlock)) = NoTextBlock THEN <<>>
  ELSE LET line == At(lines, b + 3)
       IN SubSeq(line, 6, Len(line) - 2)
HoldsResultBlock(b) ==
  \/ b + Len(NoTextBlock) <= Len(lines)
       /\ LinesBetween(lines, b, b + Len(NoTextBlock)) = NoTextBlock
  \/ \E p \in ResultPayloads :
       b + Len(Block(p)) <= Len(lines) /\ LinesBetween(lines, b, b + Len(Block(p))) = Block(p)

\* the block of a step that attaches results: inline after a capturing call,
\* or at the top level with a call pending
AttachStep(b) ==
  /\ pc = "loop" /\ pc' = "loop" /\ b < Len(lines) /\ HoldsResultBlock(b)
  /\ \/ ToolCallStep /\ BlockReached(i) /\ b = OutputStop(i)
          /\ events'[Len(events')].tool \in RESULT_CAPTURE_TOOLS
     \/ AtOrphanBlock /\ b = i /\ findFirstUnresolvedMemoryEvent(events) # 0

\* the event a step attaches to, before and after the step
Attached(evs) ==
  IF AtOrphanBlock THEN evs[findFirstUnresolvedMemoryEvent(events)] ELSE evs[Len(evs)]

C28_WitnessFailed ==
  /\ Done
  /\ lines = <<AddHeader>> \o Block(StoredFalse) \o <<ThinkLine>>
  /\ events[1].result = <<"failed">>

\* the entry lines of the search responses, written out: the score as a
\* percentage, then the content, cut with an ellipsis when it is too long
ExpectedEntries ==
  <<<<WS, "[", "90", "%", "]", WS, "Previous SEO work">>,
    <<WS, "[", "85", "%", "]", WS, PART, "...">>,
    <<WS, "[", "88", "%", "]", WS, "Older note">>>>
Least(a, b) == IF a < b THEN a ELSE b

\* the summary of a search response of n entries whose first line states shown
ExpectedSummary(n, shown, mode, tokens) ==
  JoinLines(
    <<<<shown, WS, IF shown = "1" THEN "result" ELSE "results">>
        \o (IF mode THEN <<WS, "(", "hybrid", ")">> ELSE <<>>)
        \o (IF tokens THEN <<WS, "1200", WS, "tokens">> ELSE <<>>)>>
      \o SubSeq(ExpectedEntries, 1, Least(n, 3))
      \o (IF n > 3 THEN <<<<WS, "...", WS, "and", WS, ToString(n - 3), WS, "more">>>>
          ELSE <<>>))

ExtractedFromStart == "extract" \in scanned.called /\ scanned.startIndex = 0

Milestone(phase) ==
  LET fixed == [cloning |-> 5, agent |-> 10, committing |-> 88, pushing |-> 95]
  IN IF phase \in DOMAIN fixed THEN fixed[phase] ELSE 0

\* C30: in a returned list every phase_marker event has the milestone of its
\* phase as progressPercent, whatever the other events are, and every info and
\* shell_cmd event has 0.
C30_FixedMilestones ==
  Done =>
    \A k \in 1..Len(events) :
      /\ events[k].type = "phase_marker" =>
           events[k].progressPercent * 100 = Milestone(events[k].phase) * Scale
      /\ events[k].type \in {"info", "shell_cmd"} => events[k].progressPercent = 0

\* a returned list with a committing marker at 88, an info event and two
\* significant events after them
C30_Witness ==
  /\ Done
  /\ Len(events) >= 4
  /\ \E k \in 1..Len(events) :
       /\ events[k].type = "phase_marker" /\ events[k].phase = "committing"
       /\ events[k].progressPercent * 100 = 88 * Scale
       /\ k > 1 /\ events[k - 1].type = "info"
       /\ Cardinality({m \in (k + 1)..Len(events) : events[m].type = "tool_call"}) = 2

\* two events that agree on every field outside the given ones
SameBut(a, b, fields) == \A f \in DOMAIN a \ fields : a[f] = b[f]

\* the step on a block at the top level leaves the list as it is or changes
\* the result of one tool call
OrphanFrame ==
  /\ Len(events') = Len(events)
  /\ \A k \in 1..Len(events) : SameBut(events[k], events'[k], {"result"})
  /\ Cardinality({k \in 1..Len(events) : events'[k] # events[k]}) <= 1
  /\ \A k \in 1..Len(events) : events'[k] # events[k] => events[k].type = "tool_call"

\* the last step keeps the events emitted so far in place, all fields but
\* index and progressPercent as they were, and numbers the list from 0
PostPassFrame ==
  /\ Len(events') >= Len(events)
  /\ \A k \in 1..Len(events) : SameBut(events[k], events'[k], {"index", "progressPercent"})
  /\ \A k \in 1..Len(events') : events'[k].index = k - 1

\* C31: resolving a block at the top level changes at most the result of one
\* emitted tool call, and the post-pass changes index (the position of the
\* event) and progressPercent only; neither adds, removes or reorders events
\* emitted before.
C31_LateMutationFrame ==
  /\ [][AtOrphanBlock => OrphanFrame]_vars
  /\ [][pc = "loop" /\ pc' = "done" => PostPassFrame]_vars

\* a returned list of three events or more, one of them a tool call whose
\* result came from a block at the top level
C31_Witness ==
  /\ Done
  /\ Len(events) >= 3
  /\ origin.targets # <<>>
  /\ \E k \in 1..Len(origin.targets) : events[origin.targets[k]].result # <<>>
  /\ events[Len(events)].progressPercent > 0

\* C32: the first line of a run log, as the executor writes it for a fresh
\* run and for a follow-up run, is returned as an info event with the line as
\* its content.
C32_LogHeaderIsInfo ==
  (Done /\ lines # <<>> /\ lines[1] \in LogHeaders) =>
    /\ events # <<>>
    /\ events[1].type = "info"
    /\ events[1].content = lines[1]

\* the indices of the input lines that match the tool-header pattern
HeaderLines == {h \in 0..(Len(lines) - 1) : TOOL_HEADER_RE(At(lines, h))}

\* the lines that started the tool calls returned so far
ToolCallOrigins ==
  {origin.events[k] : k \in {n \in 1..Len(events) : IsToolCall(events[n])}}

\* C33: a finished parse returns as many tool_call events as the input has
\* lines matching the tool-header pattern, and every such line is the line
\* that started one of them, with its tool and extension: no scan of a
\* block, of parameters, of output or of session metadata and no noise test
\* takes a header line.
C33_EveryHeaderYieldsToolCall ==
  Done =>
    /\ Len(ToolCalls) = Cardinality(HeaderLines)
    /\ ToolCallOrigins = HeaderLines
    /\ \A k \in 1..Len(events) :
         IsToolCall(events[k]) =>
           /\ events[k].tool = ToolOf(At(lines, origin.events[k]))
           /\ events[k].extension = ExtensionOf(At(lines, origin.events[k]))

\* a finished parse of an input with two header lines where the second one
\* follows a block that is still open when the header is reached
C33_Witness ==
  /\ Done
  /\ Cardinality(HeaderLines) >= 2
  /\ Len(ToolCalls) = Cardinality(HeaderLines)
  /\ \E b \in 0..(Len(lines) - 1), h \in HeaderLines :
       /\ ANNOTATED_START_RE(At(lines, b))
       /\ b < h
       /\ \A n \in (b + 1)..(h - 1) :
            ~TOOL_HEADER_RE(At(lines, n)) /\ ~ClosedAtEnd(lines, b, n)

\* the events that hold a result
Resolved(evs) == {k \in 1..Len(evs) : evs[k].result # <<>>}

\* C34: no step of a parse changes or clears a result that an event already
\* holds, whether the result was set with the event or attached from an
\* orphaned block; the events holding a result only grow in number.
C34_ResultStable ==
  [][/\ Resolved(events) \subseteq Resolved(events')
     /\ \A k \in Resolved(events) : events'[k].result = events[k].result]_vars

\* a finished parse where two orphaned blocks were attached to two calls with
\* different results
C34_Witness ==
  /\ Done
  /\ \E a, b \in 1..Len(origin.targets) :
       /\ a < b
       /\ origin.targets[a] # origin.targets[b]
       /\ {origin.targets[a], origin.targets[b]} \subseteq Resolved(events)
       /\ events[origin.targets[a]].result # events[origin.targets[b]].result

\* a finished parse where an orphaned block was attached to a call that
\* stands between two calls that got their results inline
C34_WitnessInline ==
  /\ Done
  /\ \E n \in 1..Len(origin.targets), k, m \in Resolved(events) :
       /\ k < origin.targets[n] /\ origin.targets[n] < m
       /\ origin.targets[n] \in Resolved(events)
       /\ \A t \in 1..Len(origin.targets) : origin.targets[t] \notin {k, m}

IsThinking(e) == e.type = "agent_thinking"

\* no event of the list is a reasoning block that follows a reasoning block
NoAdjacentThinking(evs) ==
  \A k \in 1..(Len(evs) - 1) : ~(IsThinking(evs[k]) /\ IsThinking(evs[k + 1]))

\* a step that handles a noise line or an orphaned block
AtNoiseOrBlock == Looping /\ (isNoiseLine(Cur) \/ ANNOTATED_START_RE(Cur))

\* C35: at every point of a parse no two consecutive events are both
\* agent_thinking, and a step over a noise line or an orphaned block neither
\* emits an event nor touches the reasoning buffer, so the free text before
\* and after it ends up in one block.
C35_ReasoningBlocksMaximal ==
  /\ [](NoAdjacentThinking(events))
  /\ [][AtNoiseOrBlock => thinkingBuffer' = thinkingBuffer /\ Len(events') = Len(events)]_vars

\* a finished parse with a reasoning block that holds the free text line
\* before and the free text line after a noise line and an orphaned block
C35_Witness ==
  /\ Done
  /\ \E k \in 1..Len(events), q, n, r \in 0..(Len(lines) - 1) :
       /\ IsThinking(events[k])
       /\ origin.events[k] < q /\ origin.events[k] < n /\ q < r /\ n < r
       /\ ANNOTATED_START_RE(At(lines, q))
       /\ isNoiseLine(At(lines, n))
       /\ \A m \in origin.events[k]..r : ~IsStructural(At(lines, m))
       /\ ContentLines(events[k])[1] = At(lines, origin.events[k])
       /\ Len(ContentLines(events[k])) >= 2
       /\ ContentLines(events[k])[Len(ContentLines(events[k]))] = At(lines, r)

\* the calls between the start of their function and its end
InLock == {c \in 1..Len(runStore.calls) : runStore.calls[c].pc \in {"reading", "writing"}}
\* the calls whose function returned or threw
Settled == {c \in 1..Len(runStore.calls) : runStore.calls[c].pc \in {"returned", "rejected"}}

\* the runs after the mutations of calls c..n applied one after the other
RECURSIVE Replay(_, _, _)
Replay(stateRuns, c, n) ==
  IF c > n THEN stateRuns
  ELSE LET outcome == Apply(runStore.calls[c].mutation, stateRuns, NewId(c))
       IN Replay(IF outcome.writes THEN outcome.runs ELSE stateRuns, c + 1, n)

\* C36: under every interleaving of the calls at most one call is between
\* its read and the end of its write, the state a call is about to write is
\* its mutation applied to the file as it still is, the calls end in the
\* order they were made, and the file holds the mutations of all ended calls
\* applied one after the other in that order: no effect of an ended call is
\* missing.
C36_MutationsSerialized ==
  /\ Cardinality(InLock) <= 1
  /\ \A c \in 1..Len(runStore.calls) :
       runStore.calls[c].pc = "writing" =>
         runStore.calls[c].state = Apply(runStore.calls[c].mutation, runStore.file, NewId(c)).runs
  /\ Settled = 1..Cardinality(Settled)
  /\ runStore.file = Replay(runStore.initial, 1, Cardinality(Settled))

\* three calls ended on a store that held one run: the file holds a run
\* created by one of them next to the first run, which has the status and
\* the feedback two other calls gave it
C36_Witness ==
  /\ Cardinality(Settled) = MaxMutations
  /\ Len(runStore.initial) = 1
  /\ Len(runStore.file) = 2
  /\ runStore.file[1].status = "completed"
  /\ runStore.file[1].feedback = "up"
  /\ runStore.file[2].parentRunId = runStore.file[1].id

\* call c is an updateRun or a saveFeedback of an id the file does not hold
\* and its function is about to read
ReadsMissing(c) ==
  /\ c \in 1..Len(runStore.calls)
  /\ runStore.calls[c].pc = "reading"
  /\ runStore.calls[c].mutation.op \in {"updateRun", "saveFeedback"}
  /\ \A k \in 1..Len(runStore.file) : runStore.file[k].id # runStore.calls[c].mutation.id

\* C37: an updateRun on an id that is not stored throws `Run not found` with
\* the id, leaves the file as it is and resolves the call's lock promise; a
\* call that threw has released the lock, and whenever calls are waiting
\* and no call holds the lock one of them can go on.
C37_FailingMutationHarmless ==
  /\ [][\A c \in 1..Len(runStore.calls) :
          (ReadsMissing(c) /\ runStore'.calls[c] # runStore.calls[c]) =>
            /\ runStore'.calls[c].pc = "rejected"
            /\ runStore'.calls[c].error = "Run not found: " \o runStore.calls[c].mutation.id
            /\ runStore'.file = runStore.file
            /\ c \in runStore'.resolved]_vars
  /\ [](\A c \in 1..Len(runStore.calls) :
          runStore.calls[c].pc = "rejected" => c \in runStore.resolved)
  /\ []((InLock = {} /\ \E c \in 1..Len(runStore.calls) : Awaiting(c)) =>
          \E c \in 1..Len(runStore.calls) :
            Awaiting(c) /\ runStore.calls[c].previous \in runStore.resolved)

\* an update of a missing id threw, and the call that took its promise ran
\* and changed the file
C37_Witness ==
  /\ Len(runStore.calls) >= 2
  /\ runStore.calls[1].pc = "rejected"
  /\ runStore.calls[2].pc = "returned"
  /\ runStore.calls[2].previous = 1
  /\ runStore.file # runStore.initial

\* processRun stored the running status
Started == manager.stored # <<>>
\* processRun returned or threw
Ended == manager.pc \in {"returned", "rejected"}

\* the status the store must hold after the callback of a phase
StatusOfPhase(phase) ==
  CASE phase = "validating" -> "validating"
    [] phase = "pushing" -> "pushing"
    [] phase \in {"cloning", "agent"} -> "running"

\* C38: a run whose processing started ends: when processRun has returned
\* or thrown the stored status is completed or failed, finishedAt is set
\* and the heartbeat timer is cleared; and every phase callback leaves the
\* status of its phase in the store: validating, pushing, or running for the
\* other phases.
C38_ReachesTerminalStatus ==
  /\ [](Started /\ Ended =>
          /\ manager.run.status \in {"completed", "failed"}
          /\ manager.run.finishedAt # NONE
          /\ ~manager.heartbeat)
  /\ [][(manager.pc = "executing" /\ manager'.phases # manager.phases) =>
          /\ manager'.run.status = StatusOfPhase(Head(manager.phases))
          /\ manager'.run.phase = Head(manager.phases)]_vars
  /\ (Started ~> Ended)

\* a call that went through validating and pushing, with a heartbeat tick,
\* and returned with the run completed
C38_Witness ==
  /\ manager.pc = "returned"
  /\ manager.run.status = "completed"
  /\ manager.run.finishedAt # NONE
  /\ manager.heartbeatTick > 0
  /\ \E a, b \in 1..Len(manager.stored) :
       a < b /\ manager.stored[a] = "validating" /\ manager.stored[b] = "pushing"

\* C39: once a call of processRun has stored the status completed it does
\* not store the status failed.
C39_CompletionIsFinal ==
  \A a, b \in 1..Len(manager.stored) :
    (a < b /\ manager.stored[a] = "completed") => manager.stored[b] # "failed"

\* execute left the validation rounds: it threw or went on to the commit
Left == execution.pc \in {"threw", "commit", "committing"}
Failures == {k \in 1..Len(execution.validations) : execution.validations[k] # 0}

\* C40: in one execute call the validation command runs at most
\* maxValidationRounds + 1 times and the agent is run again for a fix at most
\* maxValidationRounds times (once after every failed validation but the
\* last); execute goes on to the commit steps exactly after the first
\* validation that passes, and throws the validation error exactly when
\* maxValidationRounds + 1 validations ran and all failed.
C40_BoundedValidationRetries ==
  /\ Len(execution.validations) <= execution.maxValidationRounds + 1
  /\ execution.agentRuns <= execution.maxValidationRounds
  /\ execution.agentRuns <= Cardinality(Failures)
  /\ execution.pc \in {"commit", "committing"} <=>
       /\ execution.validations # <<>>
       /\ execution.validations[Len(execution.validations)] = 0
  /\ Failures \in {1..Len(execution.validations), 1..(Len(execution.validations) - 1)}
  /\ Left =>
       (execution.error = ValidationError(execution.maxValidationRounds) <=>
          Failures = 1..(execution.maxValidationRounds + 1))

\* an execute call that threw the validation error after three validations
\* and two agent runs for fixes
C40_Witness ==
  /\ execution.pc = "threw"
  /\ execution.error = ValidationError(execution.maxValidationRounds)
  /\ Len(execution.validations) = execution.maxValidationRounds + 1
  /\ execution.agentRuns = execution.maxValidationRounds
  /\ execution.agentRuns >= 2

\* an execute call that went on to the commit after a failed and a passed
\* validation
C40_WitnessPassed ==
  /\ execution.pc = "committing"
  /\ execution.validations = <<1, 0>>
  /\ execution.agentRuns = 1
====
